---- MODULE Spec2Model ----
(***************************************************************************)
(* A model of the SPy execution core: the SPyVM global tables and call     *)
(* dispatcher (spy/vm/vm.py) and the tree-walking ASTFrame evaluator       *)
(* (spy/vm/astframe.py).                                                   *)
(***************************************************************************)
EXTENDS Integers, Sequences, FiniteSets, TLC

VARIABLES
    modules_w,       \* SPyVM.modules_w: the registered modules, by name
    globals_types,   \* SPyVM.globals_types: fullname -> W_Type (PyNoneT = no key)
    globals_w,       \* SPyVM.globals_w: fullname -> W_Object (PyNone = no key)
    funcs,           \* the function objects alive in the VM, by object identity
    vmres,           \* what the last VM operation did and returned
    stack,           \* the host call stack of the evaluator: one record per call in progress
    mode,            \* "run", "return" (a Return is propagating), "error", "done"
    exc,             \* the Return exception in flight
    err,             \* the error that ended the run
    ret,             \* the value the last completed call returned to its caller
    result,          \* what the outermost ASTFrame.run returned
    acts,            \* the ASTFrame objects: w_func, _locals, the TypeChecker's table
    heap,            \* the Namespace dicts, by object identity
    fqns,            \* the FQN objects constructed, and what the last FQN operation returned
    opreg,           \* the multi-dispatch table of operators: (op, ltype, rtype) -> result type
    opcalls,         \* the last two calls of operator resolution, with what they returned
    bframe           \* the bytecode Frame: w_code, pc, stack, locals_w, and how run ended

vmvars == <<modules_w, vmres, fqns, opreg, opcalls, bframe>>
evars == <<stack, mode, exc, err, ret, result, acts, heap>>
vars == <<modules_w, globals_types, globals_w, funcs, vmres,
          stack, mode, exc, err, ret, result, acts, heap, fqns, opreg, opcalls, bframe>>

(***************************************************************************)
(* Bounds of the model.                                                    *)
(***************************************************************************)
MaxArgs == 2
MaxBody == 3
MaxArg == 1
MaxLen == 2
MaxOps == 3

(***************************************************************************)
(* Types and values.  A W_Type is an object compared by identity: a        *)
(* record of its name and, for a function type, the identity of the        *)
(* function type object.  A W_Object is its dynamic type and a payload.    *)
(***************************************************************************)
BType(n) == [tn |-> n, id |-> 0]
T_i32  == BType("i32")
T_bool == BType("bool")
T_void == BType("void")
T_str  == BType("str")
T_type == BType("type")
FnType(k) == [tn |-> "fn", id |-> k]

\* Python's None, as a dict's "no such key" answer and as an omitted argument
PyNoneT == BType("PyNone")
PyNone == [ty |-> PyNoneT, v |-> 0]

W_i32(n) == [ty |-> T_i32, v |-> n]
w_True  == [ty |-> T_bool, v |-> 1]
w_False == [ty |-> T_bool, v |-> 0]
w_None  == [ty |-> T_void, v |-> 0]
\* the payload of a str is the sequence of its characters
W_str(s) == [ty |-> T_str, v |-> s]
W_Func(k) == [ty |-> FnType(k), v |-> k]

dynamic_type(w_obj) == w_obj.ty

is_compatible_type_NoCheck(w_arg, w_type) == TRUE

is_compatible_type(w_arg, w_type) == dynamic_type(w_arg) = w_type

(***************************************************************************)
(* Fully qualified names.  A FQN is the pair (modname, attr); the VM's     *)
(* dicts hash and compare it by its fullname.  Names are sequences of      *)
(* one-character strings, so that count and split can be computed.         *)
(***************************************************************************)
FQN(m, a) == [modname |-> m, attr |-> a]
Sep == <<":", ":">>
fullname(f) == f.modname \o Sep \o f.attr

ModNames == {<<"a">>, <<"a", ":", ":", "b">>}
AttrNames == {<<"c">>, <<"b", ":", ":", "c">>}
FQNs == {FQN(m, a) : m \in ModNames, a \in AttrNames}
Keys == {fullname(f) : f \in FQNs}

\* an optional argument: None, or the value given
None == <<>>
Some(x) == <<x>>

\* str.count('::'): the occurrences of the separator, found left to right
\* without overlap
RECURSIVE count(_)
count(s) ==
    IF Len(s) < 2 THEN 0
    ELSE IF SubSeq(s, 1, 2) = Sep THEN 1 + count(SubSeq(s, 3, Len(s)))
    ELSE count(Tail(s))

\* str.split('::') of a string that holds one separator: the text before
\* the first separator and the text after it
split(s) ==
    LET find == CHOOSE i \in 1..(Len(s) - 1) :
                   /\ SubSeq(s, i, i + 1) = Sep
                   /\ \A j \in 1..(i - 1) : SubSeq(s, j, j + 1) # Sep
    IN <<SubSeq(s, 1, find - 1), SubSeq(s, find + 2, Len(s))>>

\* the arguments of FQN(fullname=None, *, modname=None, attr=None)
FQNArgs(fn, m, a) == [fullname |-> fn, modname |-> m, attr |-> a]

\* FQN.__init__: the object built, or ok = FALSE for the AssertionError
FQN_init(args) ==
    IF args.fullname = None
    THEN IF args.modname # None /\ args.attr # None
         THEN [ok |-> TRUE, fqn |-> FQN(args.modname[1], args.attr[1])]
         ELSE [ok |-> FALSE, fqn |-> FQN(<<>>, <<>>)]
    ELSE IF args.modname = None /\ args.attr = None /\ count(args.fullname[1]) = 1
         THEN [ok |-> TRUE, fqn |-> FQN(split(args.fullname[1])[1],
                                        split(args.fullname[1])[2])]
         ELSE [ok |-> FALSE, fqn |-> FQN(<<>>, <<>>)]

\* FQN.__eq__
FQN_eq(self, other) == fullname(self) = fullname(other)

\* hash() of a str: a function of its characters
RECURSIVE str_hash(_)
str_hash(s) ==
    IF s = <<>> THEN 0
    ELSE (31 * str_hash(Tail(s)) + (IF Head(s) = ":" THEN 58 ELSE 97)) % 65536

\* FQN.__hash__
FQN_hash(self) == str_hash(fullname(self))

\* no FQN object constructed yet, no FQN operation done
NoFQNs == [objs |-> <<>>, op |-> "none", ok |-> TRUE, i |-> 0, j |-> 0,
           eq |-> FALSE, h |-> 0, str |-> <<>>, fqn |-> FQN(<<>>, <<>>)]

(***************************************************************************)
(* The function objects the VM part starts with.                           *)
(***************************************************************************)
Param(n, t) == [name |-> n, w_type |-> t]

w_abs == [kind |-> "builtin", params |-> <<Param("x", T_i32)>>, restype |-> T_i32]

VMFuncs == <<
    w_abs,
    [kind |-> "user", params |-> <<Param("x", T_i32), Param("y", T_bool)>>,
     restype |-> T_i32],
    [kind |-> "user", params |-> <<>>, restype |-> T_void],
    [kind |-> "other", params |-> <<Param("x", T_i32)>>, restype |-> T_i32] >>

VMValues == {W_i32(1), w_True, W_str(<<"s">>)}
VMTypes == {T_i32, T_bool, T_str}

\* no bytecode Frame has been made
NoFrame == [w_code |-> [body |-> <<>>, locals_w_types |-> <<>>], pc |-> 0, stack |-> <<>>,
            locals_w |-> <<>>, status |-> "none", err |-> "", result |-> PyNone,
            executed |-> <<>>]

\* the operators registered for operand types without a fixed rule
StdRegistry ==
    (<<"+", T_str, T_str>> :> T_str) @@ (<<"*", T_str, T_i32>> :> T_str)
    @@ (<<"[]", T_str, T_i32>> :> T_str)

ArgLists == UNION {[1..n -> VMValues] : n \in 0..MaxArgs}

FrameVal(t, w) == [w_static_type |-> t, w_value |-> w]
NoFV == FrameVal(PyNoneT, PyNone)
NoExc == [w_value |-> PyNone, act |-> 0]

NoRes == [op |-> "none", outcome |-> "ok", val |-> PyNone,
          frame |-> FALSE, builtin |-> FALSE, key |-> <<>>, name |-> FQN(<<>>, <<>>),
          wtype |-> PyNoneT, func |-> 0, args |-> <<>>]

InitVM ==
    /\ modules_w = <<>>
    /\ globals_types = [k \in Keys |-> PyNoneT]
    /\ globals_w = [k \in Keys |-> PyNone]
    /\ funcs = VMFuncs
    /\ vmres = NoRes
    /\ stack = <<>>
    /\ mode = "done"
    /\ exc = NoExc
    /\ err = ""
    /\ ret = NoFV
    /\ result = PyNone
    /\ acts = <<>>
    /\ heap = <<>>
    /\ fqns = NoFQNs
    /\ opreg = StdRegistry
    /\ opcalls = <<>>
    /\ bframe = NoFrame

\* a W_Module: two modules of one name are told apart by id
W_Module(name, id) == [name |-> name, id |-> id]
Modules == {W_Module(name, id) : name \in ModNames, id \in {1, 2}}

register_module_ok_NoCheck(w_mod) == TRUE

\* line 60
register_module_ok(w_mod) == w_mod.name \notin DOMAIN modules_w

register_module(w_mod) ==
    /\ IF register_module_ok(w_mod)
       THEN /\ modules_w' = [n \in DOMAIN modules_w \cup {w_mod.name} |->
                                IF n = w_mod.name THEN w_mod ELSE modules_w[n]]
            /\ vmres' = [NoRes EXCEPT !.op = "register_module", !.key = w_mod.name,
                                      !.val = w_mod]
       ELSE /\ modules_w' = modules_w
            /\ vmres' = [NoRes EXCEPT !.op = "register_module", !.key = w_mod.name,
                                      !.val = w_mod, !.outcome = "AssertionError"]
    /\ UNCHANGED <<globals_types, globals_w, funcs, evars, fqns, opreg, opcalls, bframe>>

\* The checks add_global makes before it writes anything
add_global_ok_NoRedefCheck(name, w_type, w_value) ==
    /\ name.modname \in DOMAIN modules_w
    /\ w_value # PyNone
    /\ w_type # PyNoneT => is_compatible_type(w_value, w_type)

add_global_ok_NoModuleCheck(name, w_type, w_value) ==
    /\ globals_w[fullname(name)] = PyNone
    /\ globals_types[fullname(name)] = PyNoneT
    /\ w_value # PyNone
    /\ w_type # PyNoneT => is_compatible_type(w_value, w_type)

add_global_ok(name, w_type, w_value) ==
    /\ name.modname \in DOMAIN modules_w
    /\ globals_w[fullname(name)] = PyNone
    /\ globals_types[fullname(name)] = PyNoneT
    /\ w_value # PyNone
    /\ w_type # PyNoneT => is_compatible_type(w_value, w_type)

add_global(name, w_type, w_value) ==
    /\ IF add_global_ok(name, w_type, w_value)
       THEN /\ globals_types' = [globals_types EXCEPT ![fullname(name)] =
                    IF w_type = PyNoneT THEN dynamic_type(w_value) ELSE w_type]
            /\ globals_w' = [globals_w EXCEPT ![fullname(name)] = w_value]
            /\ vmres' = [NoRes EXCEPT !.op = "add_global", !.key = fullname(name),
                                      !.name = name, !.wtype = w_type, !.val = w_value]
       ELSE /\ UNCHANGED <<globals_types, globals_w>>
            /\ vmres' = [NoRes EXCEPT !.op = "add_global", !.key = fullname(name),
                                      !.name = name, !.wtype = w_type, !.val = w_value,
                                      !.outcome = "AssertionError"]
    /\ UNCHANGED <<modules_w, funcs, evars, fqns, opreg, opcalls, bframe>>

lookup_global_type(fqn) ==
    /\ vmres' = [NoRes EXCEPT !.op = "lookup_global_type", !.key = fullname(fqn),
                              !.val = [ty |-> T_type, v |-> 0],
                              !.outcome = IF globals_types[fullname(fqn)] = PyNoneT
                                          THEN "None" ELSE "ok"]
    /\ UNCHANGED <<modules_w, globals_types, globals_w, funcs, evars, fqns, opreg, opcalls, bframe>>

lookup_global(fqn) ==
    /\ vmres' = [NoRes EXCEPT !.op = "lookup_global", !.key = fullname(fqn),
                              !.val = globals_w[fullname(fqn)],
                              !.outcome = IF globals_w[fullname(fqn)] = PyNone
                                          THEN "None" ELSE "ok"]
    /\ UNCHANGED <<modules_w, globals_types, globals_w, funcs, evars, fqns, opreg, opcalls, bframe>>

\* call_function's argument checks: the count, then each argument's type
call_args_ok_CountOnly(params, args_w) ==
    Len(params) = Len(args_w)

call_args_ok(params, args_w) ==
    /\ Len(params) = Len(args_w)
    /\ \A i \in 1..Len(params) : is_compatible_type(args_w[i], params[i].w_type)

call_function(k, args_w) ==
    /\ vmres' = [NoRes EXCEPT
            !.op = "call_function", !.func = k, !.args = args_w,
            !.outcome = IF ~call_args_ok(funcs[k].params, args_w) THEN "AssertionError"
                        ELSE IF funcs[k].kind = "user" THEN "Frame.run"
                        ELSE IF funcs[k].kind = "builtin" THEN "spy_call"
                        ELSE "AssertionError",
            !.frame = call_args_ok(funcs[k].params, args_w) /\ funcs[k].kind = "user",
            !.builtin = call_args_ok(funcs[k].params, args_w) /\ funcs[k].kind = "builtin"]
    /\ UNCHANGED <<modules_w, globals_types, globals_w, funcs, evars, fqns, opreg, opcalls, bframe>>

NextVM ==
    \/ \E w_mod \in Modules : register_module(w_mod)
    \/ \E f \in FQNs, tw \in ((VMTypes \cup {PyNoneT}) \X VMValues)
                                \cup ({PyNoneT, T_i32} \X {PyNone}) :
          add_global(f, tw[1], tw[2])
    \/ \E f \in FQNs : lookup_global_type(f)
    \/ \E f \in FQNs : lookup_global(f)
    \/ \E k \in 1..Len(VMFuncs), args \in ArgLists : call_function(k, args)

SpecVM == InitVM /\ [][NextVM]_vars

(***************************************************************************)
(* Properties of the global tables and of the call dispatcher.             *)
(***************************************************************************)

\* C1: an identifier is inserted into the global table at most once: an
\* add_global for a bound identifier fails, and the type and the value of a
\* bound identifier are never replaced.
C1_DeclareOnce ==
    [][ \A k \in Keys : globals_w[k] # PyNone =>
            /\ globals_w'[k] = globals_w[k]
            /\ globals_types'[k] = globals_types[k]
            /\ (vmres'.op = "add_global" /\ vmres'.key = k)
                    => vmres'.outcome = "AssertionError" ]_vars

\* an add_global of a bound identifier, with its module registered and no
\* type given, has failed
C1_Witness ==
    /\ vmres.op = "add_global"
    /\ vmres.outcome = "AssertionError"
    /\ vmres.name.modname \in DOMAIN modules_w
    /\ vmres.wtype = PyNoneT
    /\ globals_w[vmres.key] # PyNone

\* C2: add_global fails when the identifier's module is not registered, and
\* when a type is given that is not the value's dynamic type; a failed
\* add_global leaves both global tables as they were.
C2_AddGlobalFailure ==
    [][ vmres'.op = "add_global" =>
            /\ vmres'.name.modname \notin DOMAIN modules_w
                    => vmres'.outcome = "AssertionError"
            /\ (vmres'.wtype # PyNoneT /\ vmres'.val.ty # vmres'.wtype)
                    => vmres'.outcome = "AssertionError"
            /\ vmres'.outcome = "AssertionError"
                    => globals_types' = globals_types /\ globals_w' = globals_w ]_vars

\* an add_global of an unbound identifier of a registered module has failed
\* on the type alone
C2_Witness ==
    /\ vmres.op = "add_global"
    /\ vmres.outcome = "AssertionError"
    /\ vmres.name.modname \in DOMAIN modules_w
    /\ globals_w[vmres.key] = PyNone
    /\ vmres.wtype # PyNoneT
    /\ vmres.val.ty # vmres.wtype

ArgMismatch(k, args) ==
    \/ Len(funcs[k].params) # Len(args)
    \/ \E i \in 1..Len(args) : args[i].ty # funcs[k].params[i].w_type

\* C3: a call_function whose argument count or whose argument types do not
\* match the function type creates no frame and calls no builtin.
C3_ChecksBeforeCall ==
    (vmres.op = "call_function" /\ ArgMismatch(vmres.func, vmres.args))
        => /\ ~vmres.frame
           /\ ~vmres.builtin
           /\ vmres.outcome = "AssertionError"

\* a call with the right count and a wrong type in the second position only
C3_Witness ==
    /\ vmres.op = "call_function"
    /\ Len(vmres.args) = 2
    /\ Len(funcs[vmres.func].params) = 2
    /\ vmres.args[1].ty = funcs[vmres.func].params[1].w_type
    /\ vmres.args[2].ty # funcs[vmres.func].params[2].w_type
    /\ ~vmres.frame


(***************************************************************************)
(* The abstract syntax the evaluator walks (spy.ast), as records.          *)
(***************************************************************************)
IntLit(n)  == [ht |-> "int", hv |-> n]
BoolLit(b) == [ht |-> "bool", hv |-> b]
StrLit(t)  == [ht |-> "str", hv |-> t]

Constant(h) == [k |-> "Constant", value |-> h]
Name(id) == [k |-> "Name", id |-> id]
BinOp(op, l, r) == [k |-> "BinOp", op |-> op, left |-> l, right |-> r]
CompareOp(op, l, r) == [k |-> "CompareOp", op |-> op, left |-> l, right |-> r]
Call(f, args) == [k |-> "Call", func |-> f, args |-> args]
GetItem(v, i) == [k |-> "GetItem", value |-> v, index |-> i]

Return(e) == [k |-> "Return", value |-> e]
VarDef(n, t) == [k |-> "VarDef", name |-> n, type |-> t]
Assign(t, e) == [k |-> "Assign", target |-> t, value |-> e]
StmtExpr(e) == [k |-> "StmtExpr", value |-> e]
If(t, th, el) == [k |-> "If", test |-> t, then_body |-> th, else_body |-> el]
While(t, b) == [k |-> "While", test |-> t, body |-> b]
Arg(n, t) == [name |-> n, type |-> t]
FuncDef(n, args, rt, body, st) ==
    [k |-> "FuncDef", name |-> n, args |-> args, return_type |-> rt,
     body |-> body, symtable |-> st, color |-> "red"]

\* Symbols, as the scope analysis hands them over: a local of this frame, a
\* global with its FQN, or a name of the enclosing frame at a closure level
LocalSym(n)     == [name |-> n, is_local |-> TRUE, fqn |-> "", level |-> 0, color |-> "red"]
GlobalSym(n, f) == [name |-> n, is_local |-> FALSE, fqn |-> f, level |-> 0, color |-> "red"]
OuterSym(n, l)  == [name |-> n, is_local |-> FALSE, fqn |-> "", level |-> l, color |-> "red"]

LocalNames == {"a", "n", "m", "x", "y", "inner"}
NoLocals == [n \in LocalNames |-> PyNone]

GlobalSyms ==
    [n \in {"i32", "void", "abs", "g", "down", "proc"} |->
        GlobalSym(n, IF n \in {"i32", "void", "abs"} THEN "builtins::" \o n ELSE "test::" \o n)]

\* the symbol table of a module-level function: its locals and the globals
TopSymtable == [n \in LocalNames |-> LocalSym(n)] @@ GlobalSyms

\* the symbol table of a function nested in one: x is the enclosing frame's
InnerSymtable == ("x" :> OuterSym("x", 0)) @@ ("a" :> OuterSym("a", 0)) @@ TopSymtable

(***************************************************************************)
(* The W_Type objects that are values: a type expression evaluates to one. *)
(***************************************************************************)
TypeObjs == <<T_i32, T_void, T_bool, T_str>>
W_TypeObj(t) == [ty |-> T_type, v |-> CHOOSE i \in 1..Len(TypeObjs) : TypeObjs[i] = t]
TypeOf(w) == TypeObjs[w.v]

(***************************************************************************)
(* The functions of module test.                                           *)
(*   def down(n: i32) -> i32:            def proc(n: i32, m: i32) -> void: *)
(*       if n == 0:                          (("a" + "b") * 2)[n]          *)
(*           proc(abs(n), n + 1)             g = n + 1                     *)
(*           return g                                                      *)
(*           g = 9                                                         *)
(*       return down(n + -1) + 1                                           *)
(***************************************************************************)
down_def ==
    FuncDef("down", <<Arg("n", Name("i32"))>>, Name("i32"),
        << If(CompareOp("==", Name("n"), Constant(IntLit(0))),
              << StmtExpr(Call(Name("proc"),
                               << Call(Name("abs"), <<Name("n")>>),
                                  BinOp("+", Name("n"), Constant(IntLit(1))) >>)),
                 Return(Name("g")),
                 Assign("g", Constant(IntLit(9))) >>, <<>>),
           Return(BinOp("+", Call(Name("down"),
                                  <<BinOp("+", Name("n"), Constant(IntLit(-1)))>>),
                        Constant(IntLit(1)))) >>,
        TopSymtable)

proc_def ==
    FuncDef("proc", <<Arg("n", Name("i32")), Arg("m", Name("i32"))>>, Name("void"),
        << StmtExpr(GetItem(BinOp("*", BinOp("+", Constant(StrLit(<<"a">>)),
                                                  Constant(StrLit(<<"b">>))),
                                       Constant(IntLit(2))),
                            Name("n"))),
           Assign("g", BinOp("+", Name("n"), Constant(IntLit(1)))) >>,
        TopSymtable)

\*   def inner() -> i32:         (a and x are names of the enclosing main)
\*       if a == 1:
\*           x = 5
\*       else:
\*           return x
inner_def ==
    FuncDef("inner", <<>>, Name("i32"),
        << If(CompareOp("==", Name("a"), Constant(IntLit(1))),
              << Assign("x", Constant(IntLit(5))) >>,
              << Return(Name("x")) >>) >>,
        InnerSymtable)

ASTFunc(fqn, closure, params, restype, funcdef) ==
    [kind |-> "ast", fqn |-> fqn, closure |-> closure, params |-> params,
     restype |-> restype, funcdef |-> funcdef, defact |-> 0, snap |-> NoLocals]

(***************************************************************************)
(* The evaluator's records.  A stack record is one host-level call in      *)
(* progress: ASTFrame.run, exec_stmt, eval_expr or one of their handlers,  *)
(* with its position (pc, i) and its local variables (vals, ty).           *)
(* History, read by the properties only: cty of a stack record is the type *)
(* check_expr returned when eval_expr was entered; returned and stored of  *)
(* an activation are the value its Return raised and the value store_local *)
(* was last called with for each name; defact and snap of a function are   *)
(* the activation that defined it and that activation's locals then; act   *)
(* of exc is the activation that raised it; tests and runs of the record   *)
(* of a While or If count the evaluations of its test and the runs of its  *)
(* body (the then-body, for an If; vals of an If lists the bodies it has   *)
(* taken statements from), and h0 is the Namespace when a While began.     *)
(***************************************************************************)
Fr(k, act, node) ==
    [k |-> k, act |-> act, node |-> node, pc |-> 0, i |-> 0, vals |-> <<>>,
     ty |-> PyNoneT, cty |-> PyNoneT, tests |-> 0, runs |-> 0, h0 |-> NoLocals]

Top == stack[Len(stack)]
Pop(s) == SubSeq(s, 1, Len(s) - 1)
SetTop(s, f) == [s EXCEPT ![Len(s)] = f]

StmtKinds == {"Return", "FuncDef", "VarDef", "Assign", "StmtExpr", "If", "While"}
ExprKinds == {"Constant", "Name", "BinOp", "CompareOp", "Call", "GetItem"}

Symbol(a, name) == funcs[acts[a].w_func].funcdef.symtable[name]

(***************************************************************************)
(* The TypeChecker of one activation.  tlocals is its locals_types_w.      *)
(***************************************************************************)
TypeErr == BType("TypeError")

helper_restype(funcname) == T_str

declare_local(tl, name, w_type) ==
    IF tl[name] # PyNoneT
    THEN [ok |-> FALSE, tl |-> tl]
    ELSE [ok |-> TRUE, tl |-> [tl EXCEPT ![name] = w_type]]

check_expr_Constant(const) ==
    CASE const.value.ht = "int"  -> T_i32
      [] const.value.ht = "bool" -> T_bool
      [] const.value.ht = "str"  -> T_str
      [] OTHER                   -> T_void

check_expr_Name(name, a) ==
    LET sym == Symbol(a, name.id)
        w_type == IF sym.fqn # "" THEN globals_types[sym.fqn]
                  ELSE IF sym.is_local THEN acts[a].tlocals[name.id]
                  ELSE acts[heap[funcs[acts[a].w_func].closure[sym.level + 1]].owner]
                           .tlocals[sym.name]
    IN  IF w_type = PyNoneT THEN TypeErr ELSE w_type

check_binop(op, w_ltype, w_rtype) ==
    IF w_ltype = T_i32 /\ w_rtype = T_i32 /\ op \in {"+", "*"} THEN T_i32
    ELSE IF <<op, w_ltype, w_rtype>> \in DOMAIN opreg THEN opreg[<<op, w_ltype, w_rtype>>]
    ELSE TypeErr

check_getitem(w_vtype, w_itype) ==
    IF w_vtype = T_str /\ w_itype = T_i32 THEN T_str ELSE TypeErr

check_compare(op, w_ltype, w_rtype) ==
    IF w_ltype = T_i32 /\ w_rtype = T_i32 THEN T_bool ELSE TypeErr

RECURSIVE check_expr(_, _)
check_expr(e, a) ==
    CASE e.k = "Constant" -> check_expr_Constant(e)
      [] e.k = "Name" -> check_expr_Name(e, a)
      [] e.k = "BinOp" ->
            check_binop(e.op, check_expr(e.left, a), check_expr(e.right, a))
      [] e.k = "CompareOp" ->
            check_compare(e.op, check_expr(e.left, a), check_expr(e.right, a))
      [] e.k = "GetItem" ->
            check_getitem(check_expr(e.value, a), check_expr(e.index, a))
      [] e.k = "Call" ->
            LET w_functype == IF e.func.k = "HelperFunc" THEN TypeErr
                              ELSE check_expr(e.func, a) IN
            IF e.func.k = "HelperFunc" THEN helper_restype(e.func.funcname)
            ELSE IF w_functype.tn # "fn" THEN TypeErr
            ELSE IF Len(funcs[w_functype.id].params) # Len(e.args) THEN TypeErr
            ELSE IF \E i \in 1..Len(e.args) :
                       check_expr(e.args[i], a) # funcs[w_functype.id].params[i].w_type
                 THEN TypeErr
            ELSE funcs[w_functype.id].restype

check_stmt(stmt, a) ==
    LET tl == acts[a].tlocals
        good == [ok |-> TRUE, tl |-> tl]
        bad == [ok |-> FALSE, tl |-> tl]
    IN
    CASE stmt.k = "Return" ->
            IF check_expr(stmt.value, a) = funcs[acts[a].w_func].restype
            THEN good ELSE bad
      [] stmt.k = "Assign" ->
            LET sym == Symbol(a, stmt.target)
                w_valuetype == check_expr(stmt.value, a)
            IN  IF w_valuetype = TypeErr THEN bad
                ELSE IF sym.is_local THEN
                    IF tl[stmt.target] = PyNoneT
                    THEN declare_local(tl, stmt.target, w_valuetype)
                    ELSE IF w_valuetype = tl[stmt.target] THEN good ELSE bad
                ELSE IF sym.fqn # "" THEN
                    IF w_valuetype = globals_types[sym.fqn] THEN good ELSE bad
                ELSE good
      [] stmt.k = "StmtExpr" ->
            IF check_expr(stmt.value, a) = TypeErr THEN bad ELSE good
      [] stmt.k \in {"If", "While"} ->
            IF check_expr(stmt.test, a) = T_bool THEN good ELSE bad
      [] OTHER -> good

lazy_check_VarDef(vardef, w_type, a) == declare_local(acts[a].tlocals, vardef.name, w_type)

lazy_check_FuncDef(funcdef, w_functype, a) ==
    declare_local(acts[a].tlocals, funcdef.name, w_functype)

(***************************************************************************)
(* The evaluator: ASTFrame.  Every action is one step of the host call on  *)
(* top of the stack.                                                       *)
(***************************************************************************)
UninitMsg == "read from uninitialized local"
\* the message of line 81, its quoting of the word return left out
NoReturnMsg == "reached the end of the function without a return"

Raise(msg) ==
    /\ mode' = "error"
    /\ err' = msg
    /\ UNCHANGED <<stack, exc, ret, result, acts, heap, funcs, globals_w,
                   globals_types, vmvars>>

\* the handler on top returns fv to its caller
ReturnFV(fv) ==
    /\ stack' = Pop(stack)
    /\ ret' = fv
    /\ UNCHANGED <<mode, exc, err, result, acts, heap, funcs, globals_w,
                   globals_types, vmvars>>

\* the statement handler on top returns (None) to its caller
ReturnStmt ==
    /\ stack' = Pop(stack)
    /\ UNCHANGED <<mode, exc, err, ret, result, acts, heap, funcs, globals_w,
                   globals_types, vmvars>>

\* the record on top moves on to f and calls self.eval_expr(e) or self.exec_stmt(e)
CallOn(f, k, e) ==
    /\ stack' = Append(SetTop(stack, f), Fr(k, Top.act, e))
    /\ UNCHANGED <<mode, exc, err, ret, result, acts, heap, funcs, globals_w,
                   globals_types, vmvars>>

Running(k) == mode = "run" /\ Len(stack) > 0 /\ Top.k = k

store_local_KeepFirst(h, ns, name, w_value) ==
    IF h[ns].d[name] = PyNone THEN [h EXCEPT ![ns].d[name] = w_value] ELSE h

store_local(h, ns, name, w_value) == [h EXCEPT ![ns].d[name] = w_value]

load_local(a, name) == heap[acts[a].locals].d[name]

can_assign_from_to(w_got_type, w_type) == w_got_type = w_type

RECURSIVE init_arguments(_, _, _, _, _)
init_arguments(h, ns, params, args_w, i) ==
    IF i > Len(params) THEN h
    ELSE init_arguments(store_local(h, ns, params[i].name, args_w[i]),
                        ns, params, args_w, i + 1)

\* history: what store_local was last called with, for each name
RECURSIVE StoredArgs(_, _, _, _)
StoredArgs(st, params, args_w, i) ==
    IF i > Len(params) THEN st
    ELSE StoredArgs([st EXCEPT ![params[i].name] = args_w[i]], params, args_w, i + 1)

\* ASTFrame.run, line 70: bind the arguments
run_init ==
    /\ Running("run") /\ Top.pc = 0
    /\ LET a == Top.act
           w_func == funcs[acts[a].w_func]
           args_w == Top.vals
       IN  IF Len(w_func.params) # Len(args_w) \/ Len(Top.node.args) # Len(args_w)
           THEN Raise("ValueError")
           ELSE IF \E i \in 1..Len(args_w) :
                     ~can_assign_from_to(dynamic_type(args_w[i]),
                                         acts[a].tlocals[w_func.params[i].name])
           THEN Raise("AssertionError")
           ELSE /\ heap' = init_arguments(heap, acts[a].locals, w_func.params, args_w, 1)
                /\ acts' = [acts EXCEPT ![a].stored =
                                StoredArgs(@, w_func.params, args_w, 1)]
                /\ stack' = SetTop(stack, [Top EXCEPT !.pc = 1, !.i = 1])
                /\ UNCHANGED <<mode, exc, err, ret, result, funcs, globals_w,
                               globals_types, vmvars>>

\* ASTFrame.run, lines 72-73: the next statement of the body
run_step ==
    /\ Running("run") /\ Top.pc = 1 /\ Top.i <= Len(Top.node.body)
    /\ CallOn([Top EXCEPT !.i = @ + 1], "exec_stmt", Top.node.body[Top.i])

\* run returns w_value to the caller of call_function, or to the host
FinishRun(w_value) ==
    /\ stack' = Pop(stack)
    /\ exc' = NoExc
    /\ IF Len(stack) = 1
       THEN mode' = "done" /\ result' = w_value /\ ret' = ret
       ELSE mode' = "run" /\ ret' = FrameVal(PyNoneT, w_value) /\ result' = result
    /\ UNCHANGED <<err, acts, heap, funcs, globals_w, globals_types, vmvars>>

falls_off_ok_Always(w_restype) == TRUE

\* line 77: the end of the body is a return for a void function only
falls_off_ok(w_restype) == w_restype = T_void

\* ASTFrame.run, lines 74-82: the end of the body
run_end ==
    /\ Running("run") /\ Top.pc = 1 /\ Top.i > Len(Top.node.body)
    /\ IF falls_off_ok(funcs[acts[Top.act].w_func].restype)
       THEN FinishRun(w_None)
       ELSE Raise(NoReturnMsg)

run_catches_OutermostOnly(f) == f.k = "run" /\ f.act = 1

\* line 84: the except clause of run takes a Return
run_catches(f) == f.k = "run"

run_return_value_None(e) == w_None

\* line 85
run_return_value(e) == e.w_value

\* ASTFrame.run, lines 84-85
run_except_Return ==
    /\ mode = "return" /\ Len(stack) > 0 /\ run_catches(Top)
    /\ FinishRun(run_return_value(exc))

\* a Return leaves a host call that does not catch it
unwind ==
    /\ mode = "return" /\ Len(stack) > 0 /\ ~run_catches(Top)
    /\ stack' = Pop(stack)
    /\ IF Len(stack) = 1 THEN mode' = "error" /\ err' = "Return"
       ELSE mode' = mode /\ err' = err
    /\ UNCHANGED <<exc, ret, result, acts, heap, funcs, globals_w, globals_types, vmvars>>

exec_stmt_raises_NoCheck(stmt, a) == FALSE

\* line 105: self.t.check_stmt(stmt) raises
exec_stmt_raises(stmt, a) == ~check_stmt(stmt, a).ok

\* ASTFrame.exec_stmt, lines 104-106
exec_stmt ==
    /\ Running("exec_stmt")
    /\ IF exec_stmt_raises(Top.node, Top.act)
       THEN Raise("SPyTypeError")
       ELSE /\ acts' = [acts EXCEPT ![Top.act].tlocals = check_stmt(Top.node, Top.act).tl]
            /\ stack' = SetTop(stack, Fr(Top.node.k, Top.act, Top.node))
            /\ UNCHANGED <<mode, exc, err, ret, result, heap, funcs, globals_w,
                           globals_types, vmvars>>

eval_expr_raises_NoCheck(expr, a) == FALSE

\* line 109: self.t.check_expr(expr) raises
eval_expr_raises(expr, a) == check_expr(expr, a) = TypeErr

\* ASTFrame.eval_expr, lines 108-110
eval_expr ==
    /\ Running("eval_expr")
    /\ IF eval_expr_raises(Top.node, Top.act)
       THEN Raise("SPyTypeError")
       ELSE /\ stack' = SetTop(stack, [Fr(Top.node.k, Top.act, Top.node) EXCEPT
                                          !.cty = check_expr(Top.node, Top.act)])
            /\ UNCHANGED <<mode, exc, err, ret, result, acts, heap, funcs, globals_w,
                           globals_types, vmvars>>

\* ASTFrame.exec_stmt_Return, lines 127-129
exec_stmt_Return ==
    /\ Running("Return")
    /\ IF Top.pc = 0
       THEN CallOn([Top EXCEPT !.pc = 1], "eval_expr", Top.node.value)
       ELSE /\ mode' = "return"
            /\ exc' = [w_value |-> ret.w_value, act |-> Top.act]
            /\ acts' = [acts EXCEPT ![Top.act].returned = ret.w_value]
            /\ UNCHANGED <<stack, err, ret, result, heap, funcs, globals_w,
                           globals_types, vmvars>>

\* SPyVM.wrap.  The integers of the model are small: no sum or product of
\* the programs leaves the range of an i32.
wrap(value) ==
    CASE value.ht = "NoneType" -> w_None
      [] value.ht = "int"  -> W_i32(value.hv)
      [] value.ht = "bool" -> IF value.hv THEN w_True ELSE w_False
      [] value.ht = "str"  -> W_str(value.hv)

\* ASTFrame.eval_expr_Constant, lines 191-198
eval_expr_Constant ==
    /\ Running("Constant")
    /\ IF Top.node.value.ht \notin {"int", "bool", "str", "NoneType"}
       THEN Raise("AssertionError")
       ELSE ReturnFV(FrameVal(check_expr_Constant(Top.node), wrap(Top.node.value)))

\* ASTFrame.eval_expr_Name, lines 206-221
eval_expr_Name ==
    /\ Running("Name")
    /\ LET a == Top.act
           name == Top.node
           w_type == check_expr_Name(name, a)
           sym == Symbol(a, name.id)
           namespace == heap[funcs[acts[a].w_func].closure[sym.level + 1]].d
       IN  IF w_type = TypeErr THEN Raise("SPyTypeError")
           ELSE IF sym.fqn # "" THEN
               IF globals_w[sym.fqn] = PyNone THEN Raise("AssertionError")
               ELSE ReturnFV(FrameVal(w_type, globals_w[sym.fqn]))
           ELSE IF sym.is_local THEN
               IF load_local(a, name.id) = PyNone THEN Raise(UninitMsg)
               ELSE ReturnFV(FrameVal(w_type, load_local(a, name.id)))
           ELSE
               IF namespace[sym.name] = PyNone THEN Raise("KeyError")
               ELSE ReturnFV(FrameVal(w_type, namespace[sym.name]))

\* the record on top moves on to f
Goto(f) ==
    /\ stack' = SetTop(stack, f)
    /\ UNCHANGED <<mode, exc, err, ret, result, acts, heap, funcs, globals_w,
                   globals_types, vmvars>>

capture_Copy(h, ns) == [heap |-> Append(h, h[ns]), ref |-> Len(h) + 1]

\* line 146: the closure holds the frame's _locals dict itself
capture(h, ns) == [heap |-> h, ref |-> ns]

TypeExprs(funcdef) ==
    [i \in 1..Len(funcdef.args) |-> funcdef.args[i].type] \o <<funcdef.return_type>>

\* ASTFrame.exec_stmt_FuncDef, lines 131-148, with eval_expr_type, lines 116-123
exec_stmt_FuncDef ==
    /\ Running("FuncDef")
    /\ LET a == Top.act
           funcdef == Top.node
           n == Len(funcdef.args)
           k == Len(funcs) + 1
           lc == lazy_check_FuncDef(funcdef, FnType(k), a)
           c == capture(heap, acts[a].locals)
           w_func == [ASTFunc("???::" \o funcdef.name,
                              funcs[acts[a].w_func].closure \o <<c.ref>>,
                              [i \in 1..n |-> Param(funcdef.args[i].name, Top.vals[i])],
                              Top.vals[n + 1], funcdef)
                      EXCEPT !.defact = a, !.snap = heap[acts[a].locals].d]
       IN  IF Top.pc = 1 THEN
               IF ret.w_value.ty # T_type THEN Raise("SPyTypeError")
               ELSE IF ret.w_static_type # T_type THEN Raise("AssertionError")
               ELSE Goto([Top EXCEPT !.pc = 0, !.i = @ + 1,
                                     !.vals = Append(@, TypeOf(ret.w_value))])
           ELSE IF Top.i < n + 1 THEN
               CallOn([Top EXCEPT !.pc = 1], "eval_expr", TypeExprs(funcdef)[Top.i + 1])
           ELSE IF ~lc.ok THEN Raise("SPyTypeError")
           ELSE /\ funcs' = Append(funcs, w_func)
                /\ heap' = store_local(c.heap, acts[a].locals, funcdef.name, W_Func(k))
                /\ acts' = [acts EXCEPT ![a].tlocals = lc.tl,
                                        ![a].stored[funcdef.name] = W_Func(k)]
                /\ stack' = Pop(stack)
                /\ UNCHANGED <<mode, exc, err, ret, result, globals_w, globals_types,
                               vmvars>>

\* ASTFrame.exec_stmt_VarDef, lines 150-152, with eval_expr_type, lines 116-123
exec_stmt_VarDef ==
    /\ Running("VarDef")
    /\ LET a == Top.act
           lc == lazy_check_VarDef(Top.node, TypeOf(ret.w_value), a)
       IN  IF Top.pc = 0 THEN CallOn([Top EXCEPT !.pc = 1], "eval_expr", Top.node.type)
           ELSE IF ret.w_value.ty # T_type THEN Raise("SPyTypeError")
           ELSE IF ret.w_static_type # T_type THEN Raise("AssertionError")
           ELSE IF ~lc.ok THEN Raise("SPyTypeError")
           ELSE /\ acts' = [acts EXCEPT ![a].tlocals = lc.tl]
                /\ stack' = Pop(stack)
                /\ UNCHANGED <<mode, exc, err, ret, result, heap, funcs, globals_w,
                               globals_types, vmvars>>

\* SPyVM.store_global: the value of a declared identifier is overwritten
store_global(fqn, w_value) == [globals_w EXCEPT ![fqn] = w_value]

assign_to_local_Always(sym) == TRUE

\* line 161: the target is a local of the running function
assign_to_local(sym) == sym.is_local

\* ASTFrame.exec_stmt_Assign, lines 154-167
exec_stmt_Assign ==
    /\ Running("Assign")
    /\ LET a == Top.act
           name == Top.node.target
           sym == Symbol(a, name)
       IN  IF Top.pc = 0 THEN CallOn([Top EXCEPT !.pc = 1], "eval_expr", Top.node.value)
           ELSE IF assign_to_local(sym) THEN
                /\ heap' = store_local(heap, acts[a].locals, name, ret.w_value)
                /\ acts' = [acts EXCEPT ![a].stored[name] = ret.w_value]
                /\ stack' = Pop(stack)
                /\ UNCHANGED <<mode, exc, err, ret, result, funcs, globals_w,
                               globals_types, vmvars>>
           ELSE IF sym.fqn # "" THEN
                IF sym.color # "red" \/ globals_w[sym.fqn] = PyNone
                THEN Raise("AssertionError")
                ELSE /\ globals_w' = store_global(sym.fqn, ret.w_value)
                     /\ stack' = Pop(stack)
                     /\ UNCHANGED <<mode, exc, err, ret, result, acts, heap, funcs,
                                    globals_types, vmvars>>
           ELSE Raise("AssertionError")

\* ASTFrame.exec_stmt_StmtExpr, lines 169-170
exec_stmt_StmtExpr ==
    /\ Running("StmtExpr")
    /\ IF Top.pc = 0
       THEN CallOn([Top EXCEPT !.pc = 1], "eval_expr", Top.node.value)
       ELSE ReturnStmt

is_True_Inverted(w_obj) == w_obj = w_False

is_True(w_obj) == w_obj = w_True
is_False_Inverted(w_obj) == w_obj = w_True

is_False(w_obj) == w_obj = w_False

\* ASTFrame.exec_stmt_If, lines 172-179: pc 2 is the loop over then_body, pc 3
\* the loop over else_body
exec_stmt_If ==
    /\ Running("If")
    /\ LET body == IF Top.pc = 2 THEN Top.node.then_body ELSE Top.node.else_body
       IN  IF Top.pc = 0 THEN
               CallOn([Top EXCEPT !.pc = 1, !.tests = @ + 1], "eval_expr", Top.node.test)
           ELSE IF Top.pc = 1 THEN
               IF ret.w_value.ty # T_bool THEN Raise("AssertionError")
               ELSE IF is_True(ret.w_value)
               THEN Goto([Top EXCEPT !.pc = 2, !.i = 1, !.runs = @ + 1])
               ELSE Goto([Top EXCEPT !.pc = 3, !.i = 1])
           ELSE IF Top.i <= Len(body)
                THEN CallOn([Top EXCEPT !.i = @ + 1,
                                        !.vals = Append(@, IF Top.pc = 2 THEN "then"
                                                           ELSE "else")],
                            "exec_stmt", body[Top.i])
                ELSE ReturnStmt

\* ASTFrame.exec_stmt_While, lines 181-187: pc 2 is the loop over the body
exec_stmt_While ==
    /\ Running("While")
    /\ IF Top.pc = 0 THEN
           CallOn([Top EXCEPT !.pc = 1, !.tests = @ + 1,
                              !.h0 = IF Top.tests = 0
                                     THEN heap[acts[Top.act].locals].d ELSE @],
                  "eval_expr", Top.node.test)
       ELSE IF Top.pc = 1 THEN
           IF ret.w_value.ty # T_bool THEN Raise("AssertionError")
           ELSE IF is_False(ret.w_value) THEN ReturnStmt
           ELSE Goto([Top EXCEPT !.pc = 2, !.i = 1, !.runs = @ + 1])
       ELSE IF Top.i <= Len(Top.node.body)
            THEN CallOn([Top EXCEPT !.i = @ + 1], "exec_stmt", Top.node.body[Top.i])
            ELSE Goto([Top EXCEPT !.pc = 0])

unwrap(w_value) == w_value.v

RECURSIVE StrRepeat(_, _)
StrRepeat(t, n) == IF n <= 0 THEN <<>> ELSE t \o StrRepeat(t, n - 1)

\* spy.vm.helpers: the registered operator helpers
helper(funcname, args_w) ==
    CASE funcname = "StrAdd" -> W_str(args_w[1].v \o args_w[2].v)
      [] funcname = "StrMul" -> W_str(StrRepeat(args_w[1].v, args_w[2].v))
      [] funcname = "StrGetItem" -> W_str(<<args_w[1].v[args_w[2].v + 1]>>)

call_helper_NoCall(funcname, args_w, w_restype) == FrameVal(w_restype, args_w[1])

\* ASTFrame.call_helper, lines 299-303
call_helper(funcname, args_w, w_restype) == FrameVal(w_restype, helper(funcname, args_w))

binop_i32_type_Bool == T_bool

\* lines 234 and 236: the static type of an i32 sum or product
binop_i32_type == T_i32

\* the message of the assertion that ends eval_expr_BinOp
Unsupported == "Unsupported binop, bug in the typechecker"

\* ASTFrame.eval_expr_BinOp, lines 223-250
eval_expr_BinOp ==
    /\ Running("BinOp")
    /\ LET binop == Top.node
           w_restype == check_expr(binop, Top.act)
           fv_l == Top.vals[1]
           fv_r == ret
           argtypes == <<fv_l.w_static_type, fv_r.w_static_type>>
           l == unwrap(fv_l.w_value)
           r == unwrap(fv_r.w_value)
       IN  IF Top.pc = 0 THEN
               IF w_restype = TypeErr THEN Raise("SPyTypeError")
               ELSE CallOn([Top EXCEPT !.pc = 1, !.ty = w_restype], "eval_expr", binop.left)
           ELSE IF Top.pc = 1 THEN
               CallOn([Top EXCEPT !.pc = 2, !.vals = <<ret>>], "eval_expr", binop.right)
           ELSE IF argtypes = <<T_i32, T_i32>> THEN
               IF binop.op = "+"
               THEN ReturnFV(FrameVal(binop_i32_type, wrap(IntLit(l + r))))
               ELSE IF binop.op = "*"
               THEN ReturnFV(FrameVal(binop_i32_type, wrap(IntLit(l * r))))
               ELSE Raise(Unsupported)
           ELSE IF binop.op = "+" /\ argtypes = <<T_str, T_str>> THEN
               ReturnFV(call_helper("StrAdd", <<fv_l.w_value, fv_r.w_value>>, Top.ty))
           ELSE IF binop.op = "*" /\ argtypes = <<T_str, T_i32>> THEN
               ReturnFV(call_helper("StrMul", <<fv_l.w_value, fv_r.w_value>>, Top.ty))
           ELSE Raise(Unsupported)

compare(op, l, r) ==
    CASE op = "==" -> l = r
      [] op = "!=" -> l # r
      [] op = "<"  -> l < r
      [] op = "<=" -> l <= r
      [] op = ">"  -> l > r
      [] op = ">=" -> l >= r

\* ASTFrame.eval_expr_CompareOp, lines 255-272
eval_expr_CompareOp ==
    /\ Running("CompareOp")
    /\ LET op == Top.node
           fv_l == Top.vals[1]
           fv_r == ret
           l == unwrap(fv_l.w_value)
           r == unwrap(fv_r.w_value)
       IN  IF Top.pc = 0 THEN
               IF check_expr(op, Top.act) = TypeErr THEN Raise("SPyTypeError")
               ELSE CallOn([Top EXCEPT !.pc = 1], "eval_expr", op.left)
           ELSE IF Top.pc = 1 THEN
               CallOn([Top EXCEPT !.pc = 2, !.vals = <<ret>>], "eval_expr", op.right)
           ELSE IF fv_l.w_static_type = T_i32 /\ fv_r.w_static_type = T_i32 THEN
               IF op.op \notin {"==", "!=", "<", "<=", ">", ">="}
               THEN Raise("UnboundLocalError")
               ELSE ReturnFV(FrameVal(T_bool, wrap(BoolLit(compare(op.op, l, r)))))
           ELSE Raise("AssertionError")

\* ASTFrame.eval_expr_GetItem, lines 305-316
eval_expr_GetItem ==
    /\ Running("GetItem")
    /\ LET op == Top.node
           w_restype == check_expr(op, Top.act)
           fv_val == Top.vals[1]
           fv_index == ret
           argtypes == <<fv_val.w_static_type, fv_index.w_static_type>>
       IN  IF Top.pc = 0 THEN
               IF w_restype = TypeErr THEN Raise("SPyTypeError")
               ELSE CallOn([Top EXCEPT !.pc = 1, !.ty = w_restype], "eval_expr", op.value)
           ELSE IF Top.pc = 1 THEN
               CallOn([Top EXCEPT !.pc = 2, !.vals = <<ret>>], "eval_expr", op.index)
           ELSE IF argtypes = <<T_str, T_i32>> THEN
               ReturnFV(call_helper("StrGetItem", <<fv_val.w_value, fv_index.w_value>>,
                                    Top.ty))
           ELSE Raise("AssertionError")

NewAct(k, ns, params) ==
    [w_func |-> k, locals |-> ns,
     tlocals |-> [n \in LocalNames |->
                    IF \E i \in 1..Len(params) : params[i].name = n
                    THEN params[CHOOSE i \in 1..Len(params) : params[i].name = n].w_type
                    ELSE PyNoneT],
     returned |-> PyNone, stored |-> NoLocals]

Abs(x) == IF x < 0 THEN 0 - x ELSE x

\* W_BuiltinFunction.spy_call of the builtin abs
spy_call(k, args_w) == W_i32(Abs(args_w[1].v))

\* `for arg in call.args` (line 291): the argument evaluated after i of them
next_arg_Reversed(args, i) == args[Len(args) - i]

next_arg(args, i) == args[i + 1]

\* ASTFrame.eval_expr_Call, lines 281-293, with SPyVM.call_function: pc 1 has
\* the callee, pc 2 and 3 are the loop over the arguments, pc 4 has the
\* result of call_function; pc 5 and 6 are the loop of a HelperFunc call
eval_expr_Call ==
    /\ Running("Call")
    /\ LET call == Top.node
           w_restype == check_expr(call, Top.act)
           w_func == Top.vals[1]
           args_w == Tail(Top.vals)
           f == funcs[w_func.v]
           a == Len(acts) + 1
       IN  IF Top.pc = 0 THEN
               IF w_restype = TypeErr THEN Raise("SPyTypeError")
               ELSE IF call.func.k = "HelperFunc"
               THEN Goto([Top EXCEPT !.pc = 5, !.ty = w_restype])
               ELSE CallOn([Top EXCEPT !.pc = 1, !.ty = w_restype], "eval_expr", call.func)
           ELSE IF Top.pc = 1 THEN
               IF ret.w_value.ty.tn # "fn" THEN Raise("AssertionError")
               ELSE Goto([Top EXCEPT !.pc = 2, !.vals = <<ret.w_value>>])
           ELSE IF Top.pc = 3 THEN
               Goto([Top EXCEPT !.pc = 2, !.vals = Append(@, ret.w_value)])
           ELSE IF Top.pc = 6 THEN
               Goto([Top EXCEPT !.pc = 5, !.vals = Append(@, ret.w_value)])
           ELSE IF Top.pc = 5 THEN
               IF Top.i < Len(call.args)
               THEN CallOn([Top EXCEPT !.pc = 6, !.i = @ + 1], "eval_expr",
                           call.args[Top.i + 1])
               ELSE ReturnFV(call_helper(call.func.funcname, Top.vals, Top.ty))
           ELSE IF Top.pc = 4 THEN
               ReturnFV(FrameVal(Top.ty, ret.w_value))
           ELSE IF Top.i < Len(call.args) THEN
               CallOn([Top EXCEPT !.pc = 3, !.i = @ + 1], "eval_expr",
                      next_arg(call.args, Top.i))
           ELSE IF ~call_args_ok(f.params, args_w) THEN Raise("AssertionError")
           ELSE IF f.kind = "ast" THEN
               /\ acts' = Append(acts, NewAct(w_func.v, Len(heap) + 1, f.params))
               /\ heap' = Append(heap, [owner |-> a, d |-> NoLocals])
               /\ stack' = Append(SetTop(stack, [Top EXCEPT !.pc = 4]),
                                  [Fr("run", a, f.funcdef) EXCEPT !.vals = args_w])
               /\ UNCHANGED <<mode, exc, err, ret, result, funcs, globals_w,
                              globals_types, vmvars>>
           ELSE IF f.kind = "builtin" THEN
               /\ ret' = FrameVal(PyNoneT, spy_call(w_func.v, args_w))
               /\ stack' = SetTop(stack, [Top EXCEPT !.pc = 4])
               /\ UNCHANGED <<mode, exc, err, result, acts, heap, funcs, globals_w,
                              globals_types, vmvars>>
           ELSE Raise("AssertionError")

(***************************************************************************)
(* The programs.  main(a: i32) has a body of up to MaxBody statements of   *)
(* Pool, the result type i32 and an argument of 0..MaxArg.                 *)
(*   1  x = 0               5  while x < 2:                                *)
(*   2  x = x + 1                  x = x + 1                               *)
(*   3  var x: i32                 if a + 1 == x:                          *)
(*   4  return x                       return x + 10                       *)
(*   6  def inner() -> i32: ...        x = 100                             *)
(*                                 y = x                                   *)
(*   7  return inner()      8  x = down(a)                                 *)
(***************************************************************************)
Pool == <<
    Assign("x", Constant(IntLit(0))),
    Assign("x", BinOp("+", Name("x"), Constant(IntLit(1)))),
    VarDef("x", Name("i32")),
    Return(Name("x")),
    While(CompareOp("<", Name("x"), Constant(IntLit(2))),
          << Assign("x", BinOp("+", Name("x"), Constant(IntLit(1)))),
             If(CompareOp("==", BinOp("+", Name("a"), Constant(IntLit(1))), Name("x")),
                <<Return(BinOp("+", Name("x"), Constant(IntLit(10)))),
                  Assign("x", Constant(IntLit(100)))>>, <<>>),
             Assign("y", Name("x")) >>),
    inner_def,
    Return(Call(Name("inner"), <<>>)),
    Assign("x", Call(Name("down"), <<Name("a")>>)) >>

Bodies == UNION {[1..n -> 1..Len(Pool)] : n \in 1..MaxBody}

main_def(b) ==
    FuncDef("main", <<Arg("a", Name("i32"))>>, Name("i32"),
            [i \in 1..Len(b) |-> Pool[b[i]]], TopSymtable)

N1 == <<Param("n", T_i32)>>

FrameFuncs(main) == <<
    ASTFunc("test::down", <<>>, N1, T_i32, down_def),
    ASTFunc("test::proc", <<>>, N1 \o <<Param("m", T_i32)>>, T_void, proc_def),
    w_abs,
    ASTFunc("test::main", <<>>, <<Param("a", T_i32)>>, T_i32, main) >>

\* the VM with the module test loaded and main(arg) about to run
InitWith(main, arg, registry) ==
    /\ modules_w = [n \in {"builtins", "test"} |-> W_Module(n, 1)]
    /\ vmres = NoRes
    /\ globals_w = ("builtins::i32" :> W_TypeObj(T_i32)) @@ ("builtins::void" :> W_TypeObj(T_void))
                   @@ ("builtins::abs" :> W_Func(3)) @@ ("test::g" :> W_i32(0))
                   @@ ("test::down" :> W_Func(1)) @@ ("test::proc" :> W_Func(2))
                   @@ ("test::main" :> W_Func(4))
    /\ globals_types = [key \in DOMAIN globals_w |-> dynamic_type(globals_w[key])]
    /\ funcs = FrameFuncs(main)
    /\ stack = << [Fr("run", 1, main) EXCEPT !.vals = <<W_i32(arg)>>] >>
    /\ acts = << NewAct(Len(funcs), 1, <<Param("a", T_i32)>>) >>
    /\ heap = << [owner |-> 1, d |-> NoLocals] >>
    /\ mode = "run"
    /\ exc = NoExc
    /\ err = ""
    /\ ret = NoFV
    /\ result = PyNone
    /\ fqns = NoFQNs
    /\ opreg = registry
    /\ opcalls = <<>>
    /\ bframe = NoFrame

InitFrame == \E b \in Bodies, arg \in 0..MaxArg : InitWith(main_def(b), arg, StdRegistry)

NextFrame ==
    \/ run_init
    \/ run_step
    \/ run_end
    \/ run_except_Return
    \/ unwind
    \/ exec_stmt
    \/ eval_expr
    \/ exec_stmt_Return
    \/ exec_stmt_FuncDef
    \/ exec_stmt_VarDef
    \/ exec_stmt_Assign
    \/ exec_stmt_StmtExpr
    \/ exec_stmt_If
    \/ exec_stmt_While
    \/ eval_expr_Constant
    \/ eval_expr_Name
    \/ eval_expr_BinOp
    \/ eval_expr_CompareOp
    \/ eval_expr_Call
    \/ eval_expr_GetItem

SpecFrame == InitFrame /\ [][NextFrame]_vars

(***************************************************************************)
(* Properties of the evaluator                                             *)
(***************************************************************************)
\* the step is the except clause of run taking a Return
Caught == mode = "return" /\ mode' \in {"run", "done"}

\* what run handed to its caller in the step
Delivered == IF mode' = "done" THEN result' ELSE ret'.w_value

\* C4: once an activation has executed a Return, no host call of that
\* activation is on the stack while code runs, so no further statement,
\* loop test or loop iteration of it executes, and its run returns exactly
\* the value the expression of the Return evaluated to.
C4_ReturnEndsActivation ==
    [][ /\ mode' = "run" =>
            \A i \in 1..Len(stack') : acts'[stack'[i].act].returned = PyNone
        /\ Caught => /\ acts[Top.act].returned # PyNone
                     /\ Delivered = acts[Top.act].returned ]_vars

\* the Return of the second iteration of the loop of `x = 0; while ...`
\* with a = 1: x = 100 and the second y = x did not run
C4_Witness ==
    /\ mode = "done"
    /\ result = W_i32(12) /\ acts[1].returned = W_i32(12)
    /\ heap[1].d["a"] = W_i32(1)
    /\ heap[1].d["x"] = W_i32(2)
    /\ heap[1].d["y"] = W_i32(1)

\* C5: a Return is taken by the run of the activation that raised it, and
\* by no other host call: every host call it leaves belongs to that
\* activation, the caller's host calls stay as they are, and the caller's
\* Call expression goes on with the returned value.
C5_ReturnStopsAtOwnRun ==
    [][ /\ mode' = "return" => Len(stack') > 0 /\ stack'[Len(stack')].act = exc'.act
        /\ mode = "return" => ~(mode' = "error" /\ err' = "Return")
        /\ Caught =>
              /\ Top.k = "run" /\ Top.act = exc.act
              /\ stack' = Pop(stack)
              /\ Len(stack') > 0 =>
                    /\ mode' = "run"
                    /\ stack'[Len(stack')].k = "Call" /\ stack'[Len(stack')].pc = 4
                    /\ stack'[Len(stack')].act # exc.act
                    /\ ret'.w_value = exc.w_value ]_vars

\* down(1) has called down(0), whose Return is on its way to its own run
C5_Witness ==
    /\ mode = "return" /\ exc.act >= 3
    /\ Top.k # "run"
    /\ Cardinality({i \in 1..Len(stack) : stack[i].k = "run"}) >= 3

\* the step is run reaching the end of the body of its function
FallsOff == Running("run") /\ Top.pc = 1 /\ Top.i > Len(Top.node.body)

\* C6: when run reaches the end of the body without a Return, it fails with
\* the error 'reached the end of the function without a return' if and only
\* if the declared result type is not void, and returns None otherwise.
C6_EndOfBody ==
    [][ FallsOff =>
          LET w_restype == funcs[acts[Top.act].w_func].restype
          IN  /\ (mode' = "error" /\ err' = NoReturnMsg) <=> w_restype # T_void
              /\ w_restype = T_void =>
                    /\ mode' \in {"run", "done"}
                    /\ Delivered = w_None
                    /\ stack' = Pop(stack) ]_vars

\* proc, of result type void, has returned None to down, and main, of
\* result type i32, has reached the end of its body
C6_Witness ==
    /\ mode = "error" /\ err = NoReturnMsg
    /\ Len(stack) = 1 /\ funcs[acts[Top.act].w_func].restype = T_i32
    /\ \E a \in 1..Len(acts) : funcs[acts[a].w_func].restype = T_void

\* the step enters the handler of a node: the record on top becomes a
\* handler's at its first position
HandlerEntered ==
    /\ stack' # stack /\ Len(stack') > 0
    /\ stack'[Len(stack')].k \in StmtKinds \cup ExprKinds
    /\ stack'[Len(stack')].pc = 0 /\ stack'[Len(stack')].i = 0

\* C7: the handler of a statement or expression node is entered only by
\* exec_stmt or eval_expr on that same node, in the step in which the check
\* of the node by the type checker has succeeded; when the check fails the
\* step raises and the handler is not entered.
C7_CheckBeforeHandler ==
    [][ /\ HandlerEntered =>
              /\ Len(stack') = Len(stack) /\ mode = "run" /\ mode' = "run"
              /\ Top.k \in {"exec_stmt", "eval_expr"}
              /\ stack'[Len(stack')].node = Top.node
              /\ stack'[Len(stack')].act = Top.act
              /\ stack'[Len(stack')].k = Top.node.k
              /\ Top.k = "exec_stmt" =>
                    Top.node.k \in StmtKinds /\ check_stmt(Top.node, Top.act).ok
              /\ Top.k = "eval_expr" =>
                    Top.node.k \in ExprKinds /\ check_expr(Top.node, Top.act) # TypeErr
        /\ (Running("exec_stmt") /\ ~check_stmt(Top.node, Top.act).ok) =>
              mode' = "error" /\ err' = "SPyTypeError" /\ stack' = stack
        /\ (Running("eval_expr") /\ check_expr(Top.node, Top.act) = TypeErr) =>
              mode' = "error" /\ err' = "SPyTypeError" /\ stack' = stack ]_vars

\* inner has been defined and called by handlers whose nodes passed their
\* checks, and the check of its `return x` has failed: exec_stmt has raised
\* and exec_stmt_Return has not been entered
C7_Witness ==
    /\ mode = "error" /\ err = "SPyTypeError"
    /\ Top.k = "exec_stmt" /\ Top.node.k = "Return"
    /\ Top.act = 2 /\ funcs[acts[2].w_func].defact = 1
    /\ ~check_stmt(Top.node, Top.act).ok

\* the step is the handler of an expression node returning its FrameVal
ExprReturns ==
    /\ mode = "run" /\ mode' = "run"
    /\ Len(stack) > 0 /\ Top.k \in ExprKinds
    /\ stack' = Pop(stack)

\* C8: the static type of the FrameVal an expression handler returns is the
\* type the type checker gave the node when eval_expr entered the handler.
C8_StaticTypeIsCheckedType ==
    [][ ExprReturns => /\ Top.cty # TypeErr
                       /\ Top.cty = check_expr(Top.node, Top.act)
                       /\ ret'.w_static_type = Top.cty ]_vars

\* `x + 10` of the loop has returned 11 as an i32 to the Return statement
C8_Witness ==
    /\ mode = "run" /\ Top.k = "Return" /\ Top.pc = 1
    /\ Top.node.value.k = "BinOp"
    /\ ret = FrameVal(T_i32, W_i32(11))

\* the step is eval_expr_Name on a name captured from an enclosing function
ReadsCaptured ==
    /\ Running("Name")
    /\ check_expr_Name(Top.node, Top.act) # TypeErr
    /\ Symbol(Top.act, Top.node.id).fqn = ""
    /\ ~Symbol(Top.act, Top.node.id).is_local

\* C9: a read of a captured name inside a nested function yields the value
\* the defining activation last stored to that local, whether the store
\* happened before or after the nested function was defined.
C9_ClosureByReference ==
    [][ ReadsCaptured =>
          LET w_func == funcs[acts[Top.act].w_func]
              w_value == acts[w_func.defact].stored[Symbol(Top.act, Top.node.id).name]
          IN  w_value # PyNone =>
                 /\ mode' = "run" /\ stack' = Pop(stack)
                 /\ ret'.w_value = w_value ]_vars

\* inner has read x, and x is not what it was when inner was defined
C9_Witness ==
    /\ mode = "run" /\ Top.k = "Return" /\ Top.pc = 1
    /\ funcs[acts[Top.act].w_func].defact = 1
    /\ ret.w_value # funcs[acts[Top.act].w_func].snap["x"]
    /\ ret.w_value = heap[1].d["x"]

\* the step is eval_expr_Name on a local of the running function
ReadsLocal ==
    /\ Running("Name")
    /\ check_expr_Name(Top.node, Top.act) # TypeErr
    /\ Symbol(Top.act, Top.node.id).fqn = ""
    /\ Symbol(Top.act, Top.node.id).is_local

\* C10: a read of a local fails with 'read from uninitialized local' if and
\* only if store_local has not been called for that name earlier in the
\* activation, the binding of the arguments included; otherwise it yields
\* the value of the latest store_local for the name.
C10_LoadLocal ==
    [][ ReadsLocal =>
          LET w_value == acts[Top.act].stored[Top.node.id]
          IN  /\ (mode' = "error" /\ err' = UninitMsg) <=> w_value = PyNone
              /\ w_value # PyNone =>
                    /\ mode' = "run" /\ stack' = Pop(stack)
                    /\ ret'.w_value = w_value ]_vars

\* x is declared by `var x: i32`, never stored and read
C10_Witness ==
    /\ mode = "error" /\ err = UninitMsg
    /\ Top.k = "Name" /\ Top.node.id = "x"
    /\ acts[Top.act].tlocals["x"] = T_i32
    /\ acts[Top.act].stored["x"] = PyNone
    /\ acts[Top.act].stored["a"] # PyNone

\* the step is exec_stmt_VarDef returning
VarDefDone ==
    /\ Running("VarDef") /\ Top.pc = 1
    /\ mode' = "run" /\ stack' = Pop(stack)

\* C11: in the state right after a variable declaration of name n has
\* executed, the Namespace of the activation binds n to a value, so that a
\* read of n that follows immediately succeeds.
C11_VarDefStores ==
    [][ VarDefDone => heap'[acts[Top.act].locals].d[Top.node.name] # PyNone ]_vars

\* the step is exec_stmt_Assign with the value of its right-hand side
AssignStores == Running("Assign") /\ Top.pc = 1

\* C12: an assignment changes exactly one binding, chosen by the Symbol of
\* its target: a local target changes that name of the Namespace of the
\* activation and no global; a global target changes the value of that
\* identifier and neither the Namespace, nor the declared types, nor the
\* set of declared identifiers; any other target fails with both stores
\* unchanged.
C12_AssignOneBinding ==
    [][ AssignStores =>
          LET name == Top.node.target
              sym == Symbol(Top.act, name)
              ns == acts[Top.act].locals
          IN  /\ globals_types' = globals_types
              /\ DOMAIN globals_w' = DOMAIN globals_w
              /\ Len(heap') = Len(heap)
              /\ sym.is_local =>
                    /\ mode' = "run"
                    /\ globals_w' = globals_w
                    /\ \A i \in 1..Len(heap) : \A n \in LocalNames :
                          heap'[i].d[n] = IF i = ns /\ n = name THEN ret.w_value
                                          ELSE heap[i].d[n]
              /\ (~sym.is_local /\ sym.fqn # "") =>
                    /\ mode' = "run"
                    /\ heap' = heap
                    /\ \A key \in DOMAIN globals_w :
                          globals_w'[key] = IF key = sym.fqn THEN ret.w_value
                                            ELSE globals_w[key]
              /\ (~sym.is_local /\ sym.fqn = "") =>
                    /\ mode' = "error"
                    /\ heap' = heap /\ globals_w' = globals_w ]_vars

\* main has stored its local x, proc has stored the global g, and the
\* assignment of inner to the captured x has failed
C12_Witness ==
    /\ mode = "error" /\ err = "AssertionError"
    /\ Top.k = "Assign" /\ Top.pc = 1 /\ Top.act = Len(acts)
    /\ ~Symbol(Top.act, Top.node.target).is_local
    /\ Symbol(Top.act, Top.node.target).fqn = ""
    /\ heap[1].d["x"] = W_i32(2)
    /\ globals_w["test::g"] = W_i32(1)

\* the records of the while statements in progress
WhileFrames(s) == {s[p] : p \in {q \in 1..Len(s) : s[q].k = "While"}}

\* the step is exec_stmt_While leaving its loop at the break
WhileEnds ==
    /\ Running("While") /\ Top.pc = 1
    /\ mode' = "run" /\ stack' = Pop(stack)

\* C13: a While evaluates its test once before every run of its body and
\* runs the body only after a test that evaluated to true: when the loop
\* ends normally after k runs of the body the test has been evaluated k+1
\* times, and when the first test is false the body has not run and the
\* Namespace is as it was when the loop began.
C13_WhileTestsBeforeBody ==
    [][ /\ \A f \in WhileFrames(stack') :
              f.tests = f.runs + (IF f.pc = 1 THEN 1 ELSE 0)
        /\ (Running("While") /\ Top.pc = 1 /\ mode' = "run" /\ stack' # Pop(stack)) =>
              /\ ret.w_value = w_True
              /\ stack' = SetTop(stack, stack'[Len(stack)])
              /\ stack'[Len(stack)].pc = 2 /\ stack'[Len(stack)].runs = Top.runs + 1
        /\ WhileEnds =>
              /\ ret.w_value = w_False
              /\ Top.tests = Top.runs + 1
              /\ Top.runs = 0 => heap'[acts[Top.act].locals].d = Top.h0 ]_vars

\* a test of `while x < 2` is false after the body has run and stored x
C13_Witness ==
    /\ mode = "run" /\ Len(stack) > 0
    /\ Top.k = "While" /\ Top.pc = 1
    /\ ret.w_value = w_False
    /\ Top.runs >= 1 /\ Top.tests = Top.runs + 1
    /\ heap[acts[Top.act].locals].d # Top.h0

\* the records of the if statements in progress
IfFrames(s) == {s[p] : p \in {q \in 1..Len(s) : s[q].k = "If"}}

\* the step is exec_stmt_If choosing a body by the value of its test
IfChooses == Running("If") /\ Top.pc = 1 /\ mode' = "run"

\* C14: an If evaluates its test exactly once and then takes statements
\* from exactly one of its two bodies: from then_body if the value of the
\* test is the True singleton, from else_body otherwise; no statement of
\* the other body runs in that execution of the If.
C14_IfOneBody ==
    [][ /\ \A f \in IfFrames(stack') :
              /\ f.tests = (IF f.pc = 0 THEN 0 ELSE 1)
              /\ f.pc < 2 => f.vals = <<>>
              /\ f.pc = 2 => /\ f.runs = 1
                             /\ Len(f.vals) <= Len(f.node.then_body)
                             /\ \A j \in 1..Len(f.vals) : f.vals[j] = "then"
              /\ f.pc = 3 => /\ f.runs = 0
                             /\ Len(f.vals) <= Len(f.node.else_body)
                             /\ \A j \in 1..Len(f.vals) : f.vals[j] = "else"
        /\ IfChooses =>
              /\ stack' = SetTop(stack, stack'[Len(stack)])
              /\ stack'[Len(stack)].pc = (IF ret.w_value = w_True THEN 2 ELSE 3)
        /\ (Running("If") /\ Top.pc >= 2 /\ stack' # Pop(stack)) =>
              /\ Len(stack') = Len(stack) + 1
              /\ stack'[Len(stack)].pc = Top.pc
              /\ stack'[Len(stack')].node =
                    (IF Top.pc = 2 THEN Top.node.then_body ELSE Top.node.else_body)[Top.i] ]_vars

\* the test of the If of inner was false: the Return of its else_body has
\* run and the assignment of its then_body has not
C14_Witness ==
    /\ mode = "return"
    /\ Top.k = "If" /\ Top.pc = 3 /\ Top.vals = <<"else">>
    /\ Top.tests = 1 /\ Top.runs = 0
    /\ Len(Top.node.then_body) > 0
    /\ heap[1].d["x"] = exc.w_value

(***************************************************************************)
(* Properties of the module table                                          *)
(***************************************************************************)
\* C15: register_module fails for a name that is registered and leaves the
\* module table as it was; otherwise it adds exactly that module under its
\* name; so every registered name keeps the first module registered under
\* it.
C15_RegisterModule ==
    [][ /\ \A n \in DOMAIN modules_w :
              n \in DOMAIN modules_w' /\ modules_w'[n] = modules_w[n]
        /\ vmres'.op = "register_module" =>
              IF vmres'.key \in DOMAIN modules_w
              THEN /\ vmres'.outcome = "AssertionError"
                   /\ modules_w' = modules_w
              ELSE /\ vmres'.outcome = "ok"
                   /\ DOMAIN modules_w' = DOMAIN modules_w \cup {vmres'.key}
                   /\ modules_w'[vmres'.key] = vmres'.val
                   /\ vmres'.val.name = vmres'.key
        /\ vmres'.op # "register_module" => modules_w' = modules_w ]_vars

\* a second module of a registered name has been refused, and the name
\* still has the first
C15_Witness ==
    /\ vmres.op = "register_module"
    /\ vmres.outcome = "AssertionError"
    /\ vmres.key \in DOMAIN modules_w
    /\ modules_w[vmres.key] # vmres.val
    /\ modules_w[vmres.key].name = vmres.val.name

(***************************************************************************)
(* Fully qualified names as objects (spy/fqn.py): the program constructs   *)
(* identifiers in either form, compares them, hashes them and reads        *)
(* their fullname.                                                         *)
(***************************************************************************)
\* the argument lists of the constructor: the keyword form, the full-name
\* form with the text of some identifier, and calls that give neither or both
AllFQNArgs ==
    LET Strs == UNION {[1..n -> {"a", ":"}] : n \in 0..MaxLen}
    IN {FQNArgs(None, Some(m), Some(a)) : m \in Strs, a \in Strs}
       \cup {FQNArgs(Some(fullname(FQN(m, a))), None, None) : m \in Strs, a \in Strs}
       \cup {FQNArgs(None, None, None), FQNArgs(None, Some(<<"a">>), None),
             FQNArgs(Some(<<"a", ":", ":", "a">>), Some(<<"a">>), Some(<<"a">>))}

\* f = FQN(...): a first and a second identifier are all a comparison needs
new_FQN(args) ==
    /\ Len(fqns.objs) < 2
    /\ LET r == FQN_init(args) IN
       fqns' = [NoFQNs EXCEPT
                   !.objs = IF r.ok THEN Append(fqns.objs, r.fqn) ELSE fqns.objs,
                   !.op = "FQN", !.ok = r.ok]
    /\ UNCHANGED <<modules_w, globals_types, globals_w, funcs, vmres, evars, opreg, opcalls, bframe>>

\* f == g
eq_FQN(i, j) ==
    /\ i \in DOMAIN fqns.objs
    /\ j \in DOMAIN fqns.objs
    /\ fqns' = [NoFQNs EXCEPT !.objs = fqns.objs, !.op = "__eq__", !.i = i, !.j = j,
                              !.eq = FQN_eq(fqns.objs[i], fqns.objs[j])]
    /\ UNCHANGED <<modules_w, globals_types, globals_w, funcs, vmres, evars, opreg, opcalls, bframe>>

\* hash(f)
hash_FQN(i) ==
    /\ i \in DOMAIN fqns.objs
    /\ fqns' = [NoFQNs EXCEPT !.objs = fqns.objs, !.op = "__hash__", !.i = i,
                              !.h = FQN_hash(fqns.objs[i])]
    /\ UNCHANGED <<modules_w, globals_types, globals_w, funcs, vmres, evars, opreg, opcalls, bframe>>

\* f.fullname
fullname_FQN(i) ==
    /\ i \in DOMAIN fqns.objs
    /\ fqns' = [NoFQNs EXCEPT !.objs = fqns.objs, !.op = "fullname", !.i = i,
                              !.str = fullname(fqns.objs[i])]
    /\ UNCHANGED <<modules_w, globals_types, globals_w, funcs, vmres, evars, opreg, opcalls, bframe>>

\* FQN(f.fullname): the identifier is built again from its text
reparse_FQN(i) ==
    /\ i \in DOMAIN fqns.objs
    /\ LET r == FQN_init(FQNArgs(Some(fullname(fqns.objs[i])), None, None)) IN
       fqns' = [NoFQNs EXCEPT !.objs = fqns.objs, !.op = "reparse", !.i = i,
                              !.str = fullname(fqns.objs[i]),
                              !.ok = r.ok, !.fqn = r.fqn]
    /\ UNCHANGED <<modules_w, globals_types, globals_w, funcs, vmres, evars, opreg, opcalls, bframe>>

NextFQN ==
    \/ \E args \in AllFQNArgs : new_FQN(args)
    \/ \E i, j \in 1..2 : eq_FQN(i, j)
    \/ \E i \in 1..2 : hash_FQN(i)
    \/ \E i \in 1..2 : fullname_FQN(i)
    \/ \E i \in 1..2 : reparse_FQN(i)

SpecFQN == InitVM /\ [][NextFQN]_vars

\* C16: two identifiers are equal exactly when their module paths are equal
\* and their attribute names are equal, whichever form built them, and two
\* equal identifiers have equal hashes
C16_EqualIffComponents ==
    /\ fqns.op = "__eq__" =>
          (fqns.eq <=> /\ fqns.objs[fqns.i].modname = fqns.objs[fqns.j].modname
                       /\ fqns.objs[fqns.i].attr = fqns.objs[fqns.j].attr)
    /\ fqns.op = "__hash__" =>
          \A j \in DOMAIN fqns.objs :
             FQN_eq(fqns.objs[fqns.i], fqns.objs[j]) => fqns.h = FQN_hash(fqns.objs[j])

\* C17: the text of every constructed identifier holds exactly one
\* separator, and building an identifier from that text succeeds and gives
\* back the same module path and attribute name
C17_TextRoundTrips ==
    /\ fqns.op = "fullname" => count(fqns.str) = 1
    /\ fqns.op = "reparse" =>
          /\ fqns.ok
          /\ fqns.fqn.modname = fqns.objs[fqns.i].modname
          /\ fqns.fqn.attr = fqns.objs[fqns.i].attr

(***************************************************************************)
(* The order of a call to a plain function value.                          *)
(***************************************************************************)
\* the positions of the stack where a Call of a plain function is evaluated
CallFrames(s) == {p \in DOMAIN s : s[p].k = "Call" /\ s[p].node.func.k # "HelperFunc"}

\* a Call in progress: the callee is evaluated before any argument,
\* argument i is evaluated with the callee and the i-1 arguments before it
\* in hand, and the call is made with the callee and all the arguments
CallInOrder ==
    \A p \in CallFrames(stack) :
       LET f == stack[p]
           n == Len(f.node.args)
       IN  /\ f.pc \in 0..4
           /\ f.pc = 0 => p = Len(stack)
           /\ f.pc = 1 => /\ f.vals = <<>>
                          /\ f.i = 0
                          /\ p < Len(stack) => stack[p + 1].node = f.node.func
           /\ f.pc \in {2, 3, 4} => f.vals[1].ty.tn = "fn"
           /\ f.pc = 2 => Len(f.vals) = 1 + f.i /\ f.i <= n
           /\ f.pc = 3 => /\ f.i \in 1..n
                          /\ Len(f.vals) = f.i
                          /\ p < Len(stack) => stack[p + 1].node = f.node.args[f.i]
           /\ f.pc = 4 => f.i = n /\ Len(f.vals) = 1 + n

\* the steps of a Call: the value of an argument is put after the values
\* before it, call_function gets the values in that order, and after
\* call_function has returned the Call only returns
CallStep ==
    (mode = "run" /\ Len(stack) > 0 /\ Len(stack) \in CallFrames(stack) /\ mode' = "run") =>
       LET n == Len(Top.node.args)
           callee == funcs[Top.vals[1].v]
       IN  /\ Top.pc = 3 => stack'[Len(stack)].vals = Append(Top.vals, ret.w_value)
           /\ (Top.pc = 2 /\ Top.i = n) =>
                 /\ stack'[Len(stack)].pc = 4
                 /\ stack'[Len(stack)].vals = Top.vals
                 /\ IF callee.kind = "ast"
                    THEN /\ Len(stack') = Len(stack) + 1
                         /\ stack'[Len(stack')].k = "run"
                         /\ stack'[Len(stack')].node = callee.funcdef
                         /\ stack'[Len(stack')].vals = Tail(Top.vals)
                    ELSE /\ Len(stack') = Len(stack)
                         /\ ret'.w_value = spy_call(Top.vals[1].v, Tail(Top.vals))
           /\ Top.pc = 4 => stack' = Pop(stack)

\* C18: in a call to a plain function value the callee is evaluated first
\* and is a Function value, the arguments are evaluated one after the other
\* from left to right, and call_function is called once, after the last
\* argument, with the values of the arguments in the order of the source
C18_CallOrder == []CallInOrder /\ [][CallStep]_vars

\* proc(abs(n), n + 1) has called proc with the values of its two
\* arguments, the second different from the first
C18_Witness ==
    /\ Len(stack) > 1
    /\ Top.k = "run"
    /\ Len(Top.vals) = 2
    /\ Top.vals[1] # Top.vals[2]
    /\ (Len(stack) - 1) \in CallFrames(stack)
    /\ stack[Len(stack) - 1].pc = 4
    /\ Top.vals = Tail(stack[Len(stack) - 1].vals)

(***************************************************************************)
(* Binary operators.  main evaluates one binary operation for its effect   *)
(* and returns its argument; the multi-dispatch table the checker          *)
(* consults is the standard one, or one in which a module has registered   *)
(* every operator for every pair of types.                                 *)
(***************************************************************************)
BinOpOperands ==
    {Constant(IntLit(2)), Constant(IntLit(3)), Constant(StrLit(<<"a">>)),
     Constant(StrLit(<<"b">>)), Constant(BoolLit(TRUE)), Name("a"),
     BinOp("+", Constant(IntLit(2)), Constant(IntLit(3)))}

BinOpExprs == {BinOp(op, l, r) : op \in {"+", "*", "-"}, l \in BinOpOperands, r \in BinOpOperands}

binop_main(e) ==
    FuncDef("main", <<Arg("a", Name("i32"))>>, Name("i32"),
            <<StmtExpr(e), Return(Name("a"))>>, TopSymtable)

FullRegistry ==
    [key \in {"+", "*", "-", "[]"} \X {T_i32, T_str, T_bool} \X {T_i32, T_str, T_bool}
        |-> key[2]]

InitBinOp ==
    \E e \in BinOpExprs, arg \in 0..MaxArg, registry \in {StdRegistry, FullRegistry} :
       InitWith(binop_main(e), arg, registry)

NextBinOp ==
    \/ run_init
    \/ run_step
    \/ run_except_Return
    \/ unwind
    \/ exec_stmt
    \/ eval_expr
    \/ exec_stmt_Return
    \/ exec_stmt_StmtExpr
    \/ eval_expr_Constant
    \/ eval_expr_Name
    \/ eval_expr_BinOp

SpecBinOp == InitBinOp /\ [][NextBinOp]_vars

\* the positions of the stack where a BinOp is evaluated
BinOpFrames(s) == {p \in DOMAIN s : s[p].k = "BinOp"}

\* a BinOp in progress evaluates its left operand with nothing in hand and
\* its right operand with the value of the left one in hand
OperandsInOrder ==
    \A p \in BinOpFrames(stack) :
       LET f == stack[p]
       IN  /\ f.pc \in 0..2
           /\ f.pc = 0 => p = Len(stack)
           /\ f.pc = 1 => /\ f.vals = <<>>
                          /\ p < Len(stack) => stack[p + 1].node = f.node.left
           /\ f.pc = 2 => /\ Len(f.vals) = 1
                          /\ p < Len(stack) => stack[p + 1].node = f.node.right

\* the step of a BinOp that has both operands: the four entries of the
\* table give a value, everything else is the assertion failure
BinOpTable ==
    (mode = "run" /\ Len(stack) > 0 /\ Top.k = "BinOp" /\ Top.pc > 0 /\ vars' # vars) =>
       LET fv_l == Top.vals[1]
           fv_r == ret
           key == <<Top.node.op, fv_l.w_static_type, fv_r.w_static_type>>
           Returns(fv) == mode' = "run" /\ stack' = Pop(stack) /\ ret' = fv
       IN  IF Top.pc = 1
           THEN /\ stack'[Len(stack)].vals = <<ret>>
                /\ stack'[Len(stack)].pc = 2
           ELSE IF key = <<"+", T_i32, T_i32>>
           THEN Returns(FrameVal(T_i32, W_i32(fv_l.w_value.v + fv_r.w_value.v)))
           ELSE IF key = <<"*", T_i32, T_i32>>
           THEN Returns(FrameVal(T_i32, W_i32(fv_l.w_value.v * fv_r.w_value.v)))
           ELSE IF key = <<"+", T_str, T_str>>
           THEN Returns(FrameVal(Top.ty, helper("StrAdd", <<fv_l.w_value, fv_r.w_value>>)))
           ELSE IF key = <<"*", T_str, T_i32>>
           THEN Returns(FrameVal(Top.ty, helper("StrMul", <<fv_l.w_value, fv_r.w_value>>)))
           ELSE /\ mode' = "error"
                /\ err' = Unsupported
                /\ stack' = stack
                /\ ret' = ret

\* C19: a binary operation evaluates its left operand, then its right
\* operand, and then looks the operator and the pair of static operand
\* types up in a closed table: + and * of (i32, i32) give the sum and the
\* product, + of (str, str) gives the result of StrAdd, * of (str, i32) the
\* result of StrMul, and every other combination that the checker let
\* through ends in the failure 'Unsupported binop' without a value
C19_BinOpClosedTable == []OperandsInOrder /\ [][BinOpTable]_vars

\* the checker has let i32 - i32 through and the evaluation has ended in
\* the failure 'Unsupported binop', with both operands evaluated
C19_Witness ==
    /\ mode = "error"
    /\ err = Unsupported
    /\ Top.k = "BinOp"
    /\ Top.node.op = "-"
    /\ Top.pc = 2
    /\ Top.vals[1].w_static_type = T_i32
    /\ ret.w_static_type = T_i32
    /\ ret.w_value = W_i32(5)

(***************************************************************************)
(* Operator resolution, phase one (spy/vm/modules/operator): GETITEM,      *)
(* GETATTR and SETATTR of unaryop.py, GETITEM and SETITEM of itemop.py.    *)
(***************************************************************************)
T_module == BType("module")
T_dynamic == BType("dynamic")
T_typedef == BType("typedef")

\* a resolved operator descriptor, and the two not-implemented sentinels
OpImpl(name) == [k |-> "opimpl", name |-> name]
w_NotImplemented == [k |-> "NotImplemented", name |-> ""]
W_OpImpl_NULL == [k |-> "NULL", name |-> ""]

\* MM.lookup: the entry of the multi-dispatch table for the operator and
\* the pair of types, the sentinel when there is none
MM_lookup(op, w_ltype, w_rtype) ==
    IF <<op, w_ltype, w_rtype>> \in DOMAIN opreg
    THEN OpImpl(IF op = "[]" /\ w_ltype = T_str THEN "StrGetItem" ELSE op)
    ELSE w_NotImplemented

\* unaryop.GETITEM, lines 14-16
GETITEM(vm, w_vtype, w_itype) == MM_lookup("[]", w_vtype, w_itype)

GETATTR_ByName(vm, w_type, w_attr) ==
    IF w_type = T_module /\ w_attr = <<"x">> THEN OpImpl("module_getattr")
    ELSE w_NotImplemented

\* unaryop.GETATTR, lines 19-23
GETATTR(vm, w_type, w_attr) ==
    IF w_type = T_module THEN OpImpl("module_getattr") ELSE w_NotImplemented

\* unaryop.SETATTR, lines 26-35
SETATTR(vm, w_type, w_attr, w_vtype) ==
    IF w_type = T_module THEN OpImpl("module_setattr")
    ELSE IF w_type = T_dynamic THEN OpImpl("dynamic_setattr")
    ELSE IF w_type = T_typedef THEN OpImpl("generic_setattr")
    ELSE w_NotImplemented

\* an abstract value: a static type and the value, when it is known
W_AbsVal(w_static_type, w_val) == [w_static_type |-> w_static_type, w_val |-> w_val]

\* the capabilities the types declare: str overrides indexing
has_meth_overriden(w_type, meth) == w_type = T_str /\ meth = "op_GETITEM"

\* W_Str.op_GETITEM: a str is indexed by an i32
op_GETITEM(vm, wav_obj, wav_i) ==
    IF wav_i.w_static_type = T_i32 THEN OpImpl("StrGetItem") ELSE W_OpImpl_NULL

\* no type of the model overrides op_SETITEM
op_SETITEM(vm, w_type, w_itype, w_vtype) == W_OpImpl_NULL

\* typecheck_opimpl: an unresolved combination is a static type error
typecheck_opimpl(w_opimpl) == IF w_opimpl = W_OpImpl_NULL THEN "SPyTypeError" ELSE "ok"

\* itemop.GETITEM, lines 11-26: the w_opimpl it resolves
itemop_GETITEM(vm, wav_obj, wav_i) ==
    IF has_meth_overriden(wav_obj.w_static_type, "op_GETITEM")
    THEN op_GETITEM(vm, wav_obj, wav_i)
    ELSE W_OpImpl_NULL

\* itemop.SETITEM, lines 29-36
SETITEM(vm, w_type, w_itype, w_vtype) ==
    IF has_meth_overriden(w_type, "op_SETITEM")
    THEN op_SETITEM(vm, w_type, w_itype, w_vtype)
    ELSE W_OpImpl_NULL

OpTypes == {T_i32, T_str, T_module, T_dynamic, T_typedef}
IndexTypes == {T_i32, T_str}
OpAttrs == {<<"x">>, <<"y">>}
AbsVals == {W_AbsVal(T_i32, W_i32(0)), W_AbsVal(T_i32, W_i32(1)),
            W_AbsVal(T_str, W_str(<<"a">>)), W_AbsVal(T_str, W_str(<<"b">>))}

\* a call of phase one: the operation, the static types of its operands in
\* order, the values it was given, the modules of the VM it was given, the
\* w_opimpl it resolved and how the call ended
OpCall(op, types, vals, res, outcome) ==
    [op |-> op, types |-> types, vals |-> vals, vm |-> DOMAIN modules_w,
     res |-> res, outcome |-> outcome]

Resolve(c) ==
    /\ opcalls' = IF Len(opcalls) < 2 THEN Append(opcalls, c) ELSE <<opcalls[2], c>>
    /\ UNCHANGED <<modules_w, globals_types, globals_w, funcs, vmres, evars, fqns, opreg,
                   bframe>>

call_GETITEM(w_vtype, w_itype) ==
    Resolve(OpCall("GETITEM", <<w_vtype, w_itype>>, <<>>,
                   GETITEM(modules_w, w_vtype, w_itype), "ok"))

call_GETATTR(w_type, w_attr) ==
    Resolve(OpCall("GETATTR", <<w_type>>, <<w_attr>>,
                   GETATTR(modules_w, w_type, w_attr), "ok"))

call_SETATTR(w_type, w_attr, w_vtype) ==
    Resolve(OpCall("SETATTR", <<w_type, w_vtype>>, <<w_attr>>,
                   SETATTR(modules_w, w_type, w_attr, w_vtype), "ok"))

call_itemop_GETITEM(wav_obj, wav_i) ==
    LET w_opimpl == itemop_GETITEM(modules_w, wav_obj, wav_i)
    IN  Resolve(OpCall("itemop.GETITEM", <<wav_obj.w_static_type, wav_i.w_static_type>>,
                       <<wav_obj.w_val.v, wav_i.w_val.v>>,
                       w_opimpl, typecheck_opimpl(w_opimpl)))

call_SETITEM(w_type, w_itype, w_vtype) ==
    Resolve(OpCall("SETITEM", <<w_type, w_itype, w_vtype>>, <<>>,
                   SETITEM(modules_w, w_type, w_itype, w_vtype), "ok"))

NextOp ==
    \/ register_module(W_Module(<<"a">>, 1))
    \/ \E v \in IndexTypes, i \in IndexTypes : call_GETITEM(v, i)
    \/ \E t \in OpTypes, attr \in OpAttrs : call_GETATTR(t, attr)
    \/ \E t \in OpTypes, attr \in OpAttrs, v \in IndexTypes : call_SETATTR(t, attr, v)
    \/ \E o \in AbsVals, i \in AbsVals : call_itemop_GETITEM(o, i)
    \/ \E t \in IndexTypes, i \in IndexTypes, v \in IndexTypes : call_SETITEM(t, i, v)

SpecOp == InitVM /\ [][NextOp]_vars

TablesAgree ==
    \A k \in Keys :
       /\ globals_types[k] = PyNoneT <=> globals_w[k] = PyNone
       /\ globals_w[k] # PyNone =>
             \E f \in FQNs : fullname(f) = k /\ f.modname \in DOMAIN modules_w

\* a key enters the tables only by an add_global of an identifier whose
\* module is registered, no key and no module ever leaves, and a lookup of
\* either table finds nothing exactly when the other table has no such
\* key and writes to neither table
TablesStep ==
    /\ \A k \in Keys :
          /\ globals_w[k] # PyNone => globals_w'[k] # PyNone
          /\ (globals_w[k] = PyNone /\ globals_w'[k] # PyNone) =>
                /\ vmres'.op = "add_global"
                /\ fullname(vmres'.name) = k
                /\ vmres'.name.modname \in DOMAIN modules_w
    /\ DOMAIN modules_w \subseteq DOMAIN modules_w'
    /\ vmres'.op = "lookup_global" =>
          /\ vmres'.outcome = "None" <=> globals_types[vmres'.key] = PyNoneT
          /\ vmres'.outcome = "ok" => vmres'.val = globals_w[vmres'.key]
    /\ vmres'.op = "lookup_global_type" =>
          vmres'.outcome = "None" <=> globals_w[vmres'.key] = PyNone
    /\ vmres'.op \in {"lookup_global", "lookup_global_type"} =>
          /\ globals_types' = globals_types
          /\ globals_w' = globals_w
          /\ modules_w' = modules_w

\* C21: in every reachable state of the VM the table of types and the
\* table of values have the same identifiers as keys and the module name of
\* every key is a registered module; lookup_global finds nothing exactly
\* when lookup_global_type finds nothing, and neither changes the tables
C21_TablesAgree == []TablesAgree /\ [][TablesStep]_vars

\* with two globals declared, one with a given type and one without, a
\* lookup has found one of them and the tables hold a third key in neither
C21_Witness ==
    /\ vmres.op = "lookup_global"
    /\ vmres.outcome = "ok"
    /\ \E k1, k2, k3 \in Keys :
          /\ k1 # k2
          /\ globals_w[k1] # PyNone /\ globals_w[k2] # PyNone
          /\ DOMAIN modules_w = ModNames
          /\ globals_w[k3] = PyNone /\ globals_types[k3] = PyNoneT

(***************************************************************************)
(* The bytecode Frame (spy/vm/frame.py).  A code object is a body of ops   *)
(* and the declared types of its locals; bframe.executed is the history    *)
(* of the pc of every op that ran to its end.                              *)
(***************************************************************************)
OpCode(name, w_const, varname) == [name |-> name, w_const |-> w_const, varname |-> varname]

\* the ops of the bodies: the four ops of the Frame with good and bad
\* arguments, the return, and an op the Frame has no method for
Ops ==
    {OpCode("i32_const", W_i32(1), ""), OpCode("i32_const", W_str(<<"s">>), ""),
     OpCode("i32_add", PyNone, ""), OpCode("local_get", PyNone, "x"),
     OpCode("local_set", PyNone, "x"), OpCode("i32_sub", PyNone, ""),
     OpCode("return", PyNone, "")}

VarNames == <<"x", "y">>

\* locals_w_types in the order of the dict
LocalDecls ==
    {("x" :> T_i32) @@ ("y" :> T_i32), ("x" :> T_i32) @@ ("y" :> T_str)}

CodeObjects ==
    {[body |-> b, locals_w_types |-> d] :
        b \in UNION {[1..n -> Ops] : n \in 1..MaxOps}, d \in LocalDecls}

\* Frame.__init__, lines 15-21
Frame(w_code) ==
    [NoFrame EXCEPT !.w_code = w_code, !.status = "new",
                    !.locals_w = [v \in {"x", "y"} |-> PyNone]]

InitBytecode ==
    /\ InitVM
    /\ bframe = NoFrame

\* frame = Frame(vm, w_code)
new_Frame(w_code) ==
    /\ bframe.status = "none"
    /\ bframe' = Frame(w_code)
    /\ UNCHANGED <<modules_w, globals_types, globals_w, funcs, vmres, evars, fqns, opreg,
                   opcalls>>

FrameStep(f) ==
    /\ bframe' = f
    /\ UNCHANGED <<modules_w, globals_types, globals_w, funcs, vmres, evars, fqns, opreg,
                   opcalls>>

FrameFail(f, msg) == FrameStep([f EXCEPT !.status = "error", !.err = msg])

pc_next_Skip(pc) == pc + 2

\* Frame.run, line 52: self.pc += 1
pc_next(pc) == pc + 1

\* the end of an op method in run: lines 51-52
FrameAdvance(f) ==
    FrameStep([f EXCEPT !.pc = pc_next(@), !.executed = Append(@, bframe.pc)])

\* the declared locals in the order of the dict, up to the first that is
\* not an i32
RECURSIVE init_locals_upto(_, _)
init_locals_upto(types, i) ==
    IF i > Len(VarNames) THEN i
    ELSE IF types[VarNames[i]] = PyNoneT THEN init_locals_upto(types, i + 1)
    ELSE IF types[VarNames[i]] # T_i32 THEN i
    ELSE init_locals_upto(types, i + 1)

init_locals_None(types, v) == PyNone

\* Frame.init_locals, lines 30-35: what it binds the local v to
init_locals(types, v) ==
    IF types[v] = T_i32
       /\ \E i \in 1..Len(VarNames) : VarNames[i] = v /\ i < init_locals_upto(types, 1)
    THEN W_i32(0) ELSE PyNone

\* Frame.run, line 38: init_locals
frame_init_locals ==
    /\ bframe.status = "new"
    /\ LET types == bframe.w_code.locals_w_types
           f == [bframe EXCEPT !.locals_w = [v \in DOMAIN types |-> init_locals(types, v)]]
       IN  IF init_locals_upto(types, 1) <= Len(VarNames)
           THEN FrameFail(f, "AssertionError")
           ELSE FrameStep([f EXCEPT !.status = "running"])

\* the op at pc, when run is in its loop and the body has one there
Fetch(name) ==
    /\ bframe.status = "running"
    /\ bframe.pc + 1 \in DOMAIN bframe.w_code.body
    /\ bframe.w_code.body[bframe.pc + 1].name = name

CurOp == bframe.w_code.body[bframe.pc + 1]

\* Frame.run, line 40, with the pc past the end of the body
frame_run_off_end ==
    /\ bframe.status = "running"
    /\ bframe.pc + 1 \notin DOMAIN bframe.w_code.body
    /\ FrameFail(bframe, "IndexError")

\* Frame.run, lines 42-45: 'return'
frame_return ==
    /\ Fetch("return")
    /\ IF bframe.stack = <<>> THEN FrameFail(bframe, "IndexError")
       ELSE FrameStep([bframe EXCEPT !.status = "returned",
                                     !.result = bframe.stack[Len(bframe.stack)],
                                     !.stack = SubSeq(@, 1, Len(@) - 1)])

\* Frame.run, lines 47-50: no method op_<name>
frame_no_method ==
    /\ bframe.status = "running"
    /\ bframe.pc + 1 \in DOMAIN bframe.w_code.body
    /\ CurOp.name \notin {"return", "i32_const", "i32_add", "local_get", "local_set"}
    /\ FrameFail(bframe, "NotImplementedError")

\* Frame.op_i32_const, lines 54-56
op_i32_const ==
    /\ Fetch("i32_const")
    /\ IF dynamic_type(CurOp.w_const) # T_i32 THEN FrameFail(bframe, "AssertionError")
       ELSE FrameAdvance([bframe EXCEPT !.stack = Append(@, CurOp.w_const)])

\* Frame.op_i32_add, lines 58-66
op_i32_add ==
    /\ Fetch("i32_add")
    /\ LET n == Len(bframe.stack)
       IN  IF n < 2
           THEN FrameFail([bframe EXCEPT !.stack = <<>>], "IndexError")
           ELSE LET w_b == bframe.stack[n]
                    w_a == bframe.stack[n - 1]
                    rest == SubSeq(bframe.stack, 1, n - 2)
                IN  IF dynamic_type(w_a) # T_i32 \/ dynamic_type(w_b) # T_i32
                    THEN FrameFail([bframe EXCEPT !.stack = rest], "AssertionError")
                    ELSE FrameAdvance([bframe EXCEPT
                                     !.stack = Append(rest, W_i32(w_a.v + w_b.v))])

\* Frame.op_local_get, lines 68-70
op_local_get ==
    /\ Fetch("local_get")
    /\ IF bframe.locals_w[CurOp.varname] = PyNone THEN FrameFail(bframe, "KeyError")
       ELSE FrameAdvance([bframe EXCEPT !.stack = Append(@, bframe.locals_w[CurOp.varname])])

\* Frame.op_local_set, line 76: isinstance(w_value, pyclass)
local_set_ok(w_value, w_type) == dynamic_type(w_value) = w_type

\* Frame.op_local_set, lines 72-77
op_local_set ==
    /\ Fetch("local_set")
    /\ LET w_type == bframe.w_code.locals_w_types[CurOp.varname]
           n == Len(bframe.stack)
       IN  IF w_type = PyNoneT THEN FrameFail(bframe, "KeyError")
           ELSE IF n = 0 THEN FrameFail(bframe, "IndexError")
           ELSE IF ~local_set_ok(bframe.stack[n], w_type)
           THEN FrameFail([bframe EXCEPT !.stack = SubSeq(@, 1, n - 1)], "AssertionError")
           ELSE FrameAdvance([bframe EXCEPT !.stack = SubSeq(@, 1, n - 1),
                                       !.locals_w[CurOp.varname] = bframe.stack[n]])

NextBytecode ==
    \/ \E w_code \in CodeObjects : new_Frame(w_code)
    \/ frame_init_locals
    \/ frame_run_off_end
    \/ frame_return
    \/ frame_no_method
    \/ op_i32_const
    \/ op_i32_add
    \/ op_local_get
    \/ op_local_set

SpecBytecode == InitBytecode /\ [][NextBytecode]_vars

\* the steps of Frame.run
RunStep ==
    \/ frame_init_locals
    \/ frame_run_off_end
    \/ frame_return
    \/ frame_no_method
    \/ op_i32_const
    \/ op_i32_add
    \/ op_local_get
    \/ op_local_set

\* run is one uninterrupted loop: a Frame that can take a step of it takes it
SpecBytecodeRun == SpecBytecode /\ WF_vars(RunStep)

\* the place in the body (from 1) of its first 'return', 0 when it has none
FirstReturn(body) ==
    IF \E i \in DOMAIN body : body[i].name = "return"
    THEN CHOOSE i \in DOMAIN body :
            /\ body[i].name = "return"
            /\ \A j \in 1..(i - 1) : body[j].name # "return"
    ELSE 0

FrameDone == bframe.status \in {"returned", "error"}

\* the ops that ran are the ops 0 .. pc-1, each once and in this order, and
\* none of them is at or after the first 'return'
InOrder ==
    LET r == FirstReturn(bframe.w_code.body)
    IN  /\ bframe.status = "new" => bframe.pc = 0
        /\ bframe.executed = [i \in 1..bframe.pc |-> i - 1]
        /\ r > 0 => bframe.pc < r
        /\ bframe.status = "returned" => bframe.pc + 1 = r
        /\ (/\ FrameDone
            /\ r > 0
            /\ init_locals_upto(bframe.w_code.locals_w_types, 1) > Len(VarNames)
            /\ ~(bframe.status = "error" /\ bframe.pc + 1 < r))
           => bframe.executed = [i \in 1..(r - 1) |-> i - 1]

\* a step of run leaves the pc or raises it by one, raises it exactly when
\* an op other than 'return' ran to its end, and at a 'return' ends the run
\* with the value popped from the top of the stack
PcStep ==
    (bframe.status = "running") =>
        /\ bframe'.pc \in {bframe.pc, bframe.pc + 1}
        /\ bframe'.pc = bframe.pc + 1 <=>
              /\ bframe'.status = "running"
              /\ CurOp.name # "return"
              /\ bframe'.executed = Append(bframe.executed, bframe.pc)
        /\ bframe'.pc = bframe.pc => bframe'.status \in {"returned", "error"}
        /\ bframe'.status = "returned" <=>
              /\ bframe.pc + 1 \in DOMAIN bframe.w_code.body
              /\ CurOp.name = "return"
              /\ bframe.stack # <<>>
        /\ bframe'.status = "returned" =>
              /\ bframe'.result = bframe.stack[Len(bframe.stack)]
              /\ bframe'.stack = SubSeq(bframe.stack, 1, Len(bframe.stack) - 1)
              /\ bframe'.executed = bframe.executed
              /\ bframe'.locals_w = bframe.locals_w

\* C22: the Frame runs its body in order: the pc starts at 0, goes up by
\* exactly one after each op other than 'return' and never down; the run
\* stops at the first 'return' with the value popped from the top of the
\* stack and runs no later op; every run ends, and the run of a body with
\* a 'return' whose earlier ops all succeed ends having run exactly the ops
\* before that 'return'
C22_RunInOrder ==
    /\ []InOrder
    /\ [][PcStep]_vars
    /\ (bframe.status = "new") ~> FrameDone

C22_Witness ==
    /\ bframe.status = "returned"
    /\ bframe.result = W_i32(1)
    /\ bframe.executed = <<0>>
    /\ Len(bframe.w_code.body) = 3
    /\ bframe.w_code.body[3].name = "i32_const"

\* init_locals has run to its end
LocalsReady ==
    \/ bframe.status \in {"running", "returned"}
    \/ /\ bframe.status = "error"
       /\ init_locals_upto(bframe.w_code.locals_w_types, 1) > Len(VarNames)

Declared == {v \in DOMAIN bframe.w_code.locals_w_types :
                bframe.w_code.locals_w_types[v] # PyNoneT}

\* every declared local is bound to a value of its declared type, and only
\* values of type i32 are on the stack
LocalsTyped ==
    LocalsReady =>
        /\ \A v \in Declared :
              /\ bframe.locals_w[v] # PyNone
              /\ dynamic_type(bframe.locals_w[v]) = bframe.w_code.locals_w_types[v]
        /\ \A i \in DOMAIN bframe.stack : dynamic_type(bframe.stack[i]) = T_i32

\* init_locals binds every declared local to the i32 zero; local_set stores
\* the popped value when it is of the declared type and otherwise fails
\* with the locals as they were; local_get of a declared local goes on to
\* the next op with the locals as they were and exactly the value of the
\* local pushed; no other op writes a local
LocalsStep ==
    /\ (bframe.status = "new" /\ bframe'.status = "running") =>
          \A v \in Declared : bframe'.locals_w[v] = W_i32(0)
    /\ (bframe.status = "running" /\ bframe.pc + 1 \in DOMAIN bframe.w_code.body) =>
          LET v == CurOp.varname
              n == Len(bframe.stack)
          IN  /\ CurOp.name = "local_set" =>
                    IF n > 0 /\ v \in Declared
                       /\ dynamic_type(bframe.stack[n]) = bframe.w_code.locals_w_types[v]
                    THEN /\ bframe'.status = "running"
                         /\ bframe'.locals_w = [bframe.locals_w EXCEPT ![v] = bframe.stack[n]]
                    ELSE /\ bframe'.status = "error"
                         /\ bframe'.locals_w = bframe.locals_w
              /\ (CurOp.name = "local_get" /\ v \in Declared) =>
                    /\ bframe'.status = "running"
                    /\ bframe'.locals_w = bframe.locals_w
                    /\ bframe'.stack = Append(bframe.stack, bframe.locals_w[v])
              /\ CurOp.name # "local_set" => bframe'.locals_w = bframe.locals_w

\* C23: after init_locals every declared local is bound, to the i32 zero,
\* and through local_set, local_get, i32_const and i32_add every declared
\* local stays bound to a value of its declared type: local_set fails
\* rather than store a value of another type, and local_get of a declared
\* local never fails, leaves the locals as they were and pushes exactly one
\* value
C23_LocalsTyped == []LocalsTyped /\ [][LocalsStep]_vars

C23_Witness ==
    /\ bframe.status = "running"
    /\ bframe.executed = <<0, 1, 2>>
    /\ bframe.w_code.body[2].name = "local_set"
    /\ bframe.w_code.body[3].name = "local_get"
    /\ bframe.locals_w["x"] = W_i32(1)
    /\ bframe.locals_w["y"] = W_i32(0)
    /\ bframe.stack = <<W_i32(1)>>

====
